---- MODULE Spec2Model ----
(***************************************************************************)
(* A model of hotosm/s3-logs-analyzer:                                     *)
(*   - the Athena runner of aws_athena_query.py (run_athena_query,         *)
(*     wait_athena_query_to_succeed, read_athena_query_result),            *)
(*   - the date range calculator of utils.py (calculate_date_ranges),      *)
(*   - the metrics aggregator of utils.py (analyze_metrics),               *)
(*   - the report of utils.py (prepare_df, generate_full_report_email,     *)
(*     upload_metrics_json_to_s3, get_previous_months_filenames),          *)
(*   - the deletion primitive of aws_athena_query.py (_delete_s3_objects), *)
(*   - the pipeline of app.py (main, check_env_vars, athena_fetch_query,   *)
(*     upload_df_to_s3_in_formats) and the fetch query of query.py,        *)
(*   - send_email of app.py, email.py and email_results.py,                *)
(*   - get_country_from_ip and insert_to_postgres of utils.py.             *)
(* Each part has its own specification (SpecAthena, SpecDates,             *)
(* SpecMetrics, SpecRanking, SpecReport, SpecTrend, SpecDaily, SpecDelete, *)
(* SpecEmail, SpecUpload, SpecMain); the variables of the other parts stay *)
(* at their initial value.                                                 *)
(***************************************************************************)
EXTENDS Integers, Sequences, FiniteSets, TLC

VARIABLES
    \* ---- run_athena_query / wait_athena_query_to_succeed ----
    pc,           \* where the call of run_athena_query stands
    delta,        \* argument delta (seconds slept after a non-terminal poll)
    timeout,      \* argument timeout
    elapsed,      \* local variable elapsed of wait_athena_query_to_succeed
    polls,        \* get_query_execution calls made = loop iterations begun
    status,       \* state returned by the last get_query_execution ("none" before)
    seen,         \* every state a poll has returned so far
    polledIds,    \* the QueryExecutionId each poll was made for
    execId,       \* QueryExecutionId returned by start_query_execution
    nStart,       \* start_query_execution calls made
    nStop,        \* stop_query_execution calls made
    waitResult,   \* how wait_athena_query_to_succeed ended
    err,          \* the exception that ended the call, NoErr if none
    manifestRead, \* manifest objects read_athena_query_result has read
    result,       \* value returned by run_athena_query, NoResult before
    passed,       \* the optional arguments given to run_athena_query
    kwargs,       \* the request sent to start_query_execution, <<>> before
    \* ---- calculate_date_ranges ----
    today,        \* datetime.now().date()
    dateArgs,     \* the arguments of the call
    dateOut,      \* what the call returned or raised, NoCall before
    \* ---- analyze_metrics ----
    df,           \* the prepared table (a sequence of rows)
    scope,        \* argument folder_name of the last call
    metrics,      \* the snapshot returned, None before
    \* ---- utils.generate_full_report_email ----
    now,          \* datetime.now() of the run
    monthNo,      \* months gone by since the first run
    ran,          \* whether this month's report has been generated
    rawDf,        \* the table the report is generated from
    store,        \* the metrics snapshots in S3: path -> content
    report,       \* what the last call produced, NoReport before
    reader,       \* the GeoLite2 reader: what reader.get answers for each address
    \* ---- _delete_s3_objects ----
    s3Objects,    \* the keys of the objects in the bucket
    s3dir,        \* argument s3dir: the directory (prefix) to delete
    pages,        \* the pages of the listing, each the keys of its "Contents"
    pageNo,       \* the page the loop is at
    delete_us,    \* local variable delete_us: the keys of the next batch
    deleteCalls,  \* the batches of the delete_objects calls made
    delPc,        \* where the call of _delete_s3_objects stands
    \* ---- app.main ----
    args,         \* the parsed command line flags
    environ,      \* os.environ: the names of the variables that are set
    envRead,      \* the variables the run has read with os.getenv so far
    mainPc,       \* where main stands
    calls,        \* the remote calls made so far, except those of the deletion
    url,          \* what upload_df_to_s3_in_formats returned, NoUrl before
    \* ---- send_email ----
    emVariant,    \* the module whose send_email is called
    emTo,         \* the recipients
    emContentType,\* argument content_type (email_results.py only)
    emPc,         \* the call on the SMTP session that comes next
    emSessions,   \* smtplib.SMTP sessions opened by the call
    emLog,        \* what the call has logged or printed
    emErr,        \* the exception a call on the session raised, None if none
    \* ---- upload_df_to_s3_in_formats, run after run ----
    upBatch,      \* the table the query of this run returned
    upStore,      \* the objects under the result directory: path -> table
    upNow,        \* datetime.now() of the upload
    upLog,        \* the batches uploaded so far, in order
    upPc,         \* where the run stands
    \* ---- analyze_metrics_by_day, insert_to_postgres ----
    prepCalls,    \* the functions called on the table object, in order
    firstPrepared,\* the table object as the first of these calls left it
    daily,        \* the per-day table analyze_metrics_by_day returned
    pgTables,     \* the tables of the database: name -> rows
    pgIndexes,    \* the indexes of the database
    pgPc,         \* where the call of insert_to_postgres stands
    pgErr         \* the exception that left insert_to_postgres, None if none

athenaVars == <<pc, delta, timeout, elapsed, polls, status, seen, polledIds,
                execId, nStart, nStop, waitResult, err, manifestRead, result,
                passed, kwargs>>
dateVars == <<today, dateArgs, dateOut>>
metricVars == <<df, scope, metrics>>
reportVars == <<now, monthNo, ran, rawDf, store, report, reader>>
deleteVars == <<s3Objects, s3dir, pages, pageNo, delete_us, deleteCalls, delPc>>
mainVars == <<args, environ, envRead, mainPc, calls, url>>
emailVars == <<emVariant, emTo, emContentType, emPc, emSessions, emLog, emErr>>
uploadVars == <<upBatch, upStore, upNow, upLog, upPc>>
dailyVars == <<prepCalls, firstPrepared, daily, pgTables, pgIndexes, pgPc, pgErr>>
restVars == <<emailVars, uploadVars, dailyVars>>
otherVars == <<reportVars, deleteVars, mainVars, restVars>>
coreVars == <<athenaVars, dateVars, metricVars, reportVars, deleteVars, mainVars>>
vars == <<athenaVars, dateVars, metricVars, otherVars>>

\* Python's None; where a string (a sequence of characters) may stand as
\* well, None is NoneStr, which is no sequence of characters.
None == "None"
NoneStr == <<"None">>
NoCall == [kind |-> "none"]
NoMetrics == [kind |-> "none"]
NoReport == [kind |-> "none"]
NoChart == [kind |-> "none"]

(***************************************************************************)
(*                 aws_athena_query.py: the Athena runner                  *)
(***************************************************************************)

\* Bounds of the model.
MaxDelta == 2      \* delta is drawn from 0..MaxDelta
MaxTimeout == 3    \* small timeouts are drawn from 0..MaxTimeout
MaxPolls == 6      \* iterations followed one by one before a run is summarised

\* for _ in range(999999)
RangeLimit == 999999

ExecIds == {"exec-1", "exec-2"}

\* QueryExecution.Status.State as the Athena API documents it.
AthenaStates == {"QUEUED", "RUNNING", "SUCCEEDED", "FAILED", "CANCELLED"}

\* status in ["FAILED", "CANCELLED"], with one state dropped
IsFailureState_CancelledIgnored(s) == s = "FAILED"

\* status in ["FAILED", "CANCELLED"]
IsFailureState(s) == s \in {"FAILED", "CANCELLED"}

\* The else branch of the loop: every state that is neither SUCCEEDED nor a
\* failure state sleeps and polls again.
IsNonTerminal(s) == s # "SUCCEEDED" /\ ~IsFailureState(s)

NonTerminalStates == {s \in AthenaStates : IsNonTerminal(s)}

NoErr == [type |-> "none"]
NoResult == <<>>

\* RuntimeError(f"execution {exec_id} reached status: {status}")
RuntimeError(id, s) == [type |-> "RuntimeError", exec_id |-> id, status |-> s]

\* TimeoutError(f"athena query timeout in {timeout} seconds!")
TimeoutError(t) == [type |-> "TimeoutError", timeout |-> t]

\* s3dir_metadata.joinpath(f"{exec_id}-manifest.csv")
ManifestOf(id) == <<"metadata", id, "-manifest.csv">>

\* The timeouts a call is made with: the small ones, and for delta > 0 the two
\* around RangeLimit * delta, where the loop runs out of iterations.
Timeouts(d) ==
    (0 .. MaxTimeout) \cup
    (IF d > 0 THEN {RangeLimit * d - 1, RangeLimit * d} ELSE {})

\* Bound: the optional arguments given in one call.
MaxPassed == 1

\* The optional arguments of run_athena_query that enter the request, and
\* the sets of them a call may give (with a value that is true in Python).
ConfigurationArguments ==
    {"encryption_configuration", "expected_bucket_owner", "acl_configuration"}
OptionalArguments ==
    ConfigurationArguments \cup {"catalog", "workgroup", "execution_parameters",
                                 "result_cache_expire", "client_request_token"}
PassedArguments == {S \in SUBSET OptionalArguments : Cardinality(S) <= MaxPassed}

\* The key an argument has in the request, and its value there: the value
\* given, which the model names after the argument.
RequestKey(argument) ==
    CASE argument = "encryption_configuration" -> "EncryptionConfiguration"
      [] argument = "expected_bucket_owner" -> "ExpectedBucketOwner"
      [] argument = "acl_configuration" -> "AclConfiguration"
      [] argument = "catalog" -> "Catalog"
      [] argument = "workgroup" -> "WorkGroup"
      [] argument = "execution_parameters" -> "Parameters"
      [] argument = "result_cache_expire" -> "ResultReuseConfiguration"
      [] argument = "client_request_token" -> "ClientRequestToken"
ValueOf(argument) == "<" \o argument \o ">"

\* The entries that the arguments given, among those of names, add to a dict.
Entries(given, names) ==
    [key \in {RequestKey(a) : a \in given \cap names} |->
        ValueOf(CHOOSE a \in given \cap names : RequestKey(a) = key)]

\* result_configuration = dict(OutputLocation=s3dir_metadata.uri), with the
\* three settings that are given; nothing uses it once it is built.
ResultConfiguration(given) ==
    ("OutputLocation" :> "s3dir_metadata.uri") @@ Entries(given, ConfigurationArguments)

\* kwargs of start_query_execution: QueryString, QueryExecutionContext, a
\* ResultConfiguration made anew with OutputLocation only, and, in rest,
\* the entries that workgroup, execution_parameters, result_cache_expire and
\* client_request_token add.
Kwargs(given) ==
    [QueryString |-> "UNLOAD",
     QueryExecutionContext |-> ("Database" :> "database") @@ Entries(given, {"catalog"}),
     ResultConfiguration |-> ("OutputLocation" :> "s3dir_metadata.uri"),
     rest |-> Entries(given, {"workgroup", "execution_parameters",
                              "result_cache_expire", "client_request_token"})]

AthenaIdle ==
    /\ pc = "idle" /\ delta = 0 /\ timeout = 0 /\ elapsed = 0 /\ polls = 0
    /\ status = "none" /\ seen = {} /\ polledIds = {} /\ execId = None
    /\ nStart = 0 /\ nStop = 0 /\ waitResult = "none" /\ err = NoErr
    /\ manifestRead = {} /\ result = NoResult
    /\ passed = {} /\ kwargs = <<>>

\* run_athena_query has been called with (delta, timeout); nothing sent yet.
InitAthena ==
    /\ pc = "start"
    /\ delta \in 0 .. MaxDelta
    /\ timeout \in Timeouts(delta)
    /\ elapsed = 0 /\ polls = 0
    /\ status = "none" /\ seen = {} /\ polledIds = {} /\ execId = None
    /\ nStart = 0 /\ nStop = 0 /\ waitResult = "none" /\ err = NoErr
    /\ manifestRead = {} /\ result = NoResult
    /\ passed \in PassedArguments /\ kwargs = <<>>

\* res = bsm.athena_client.start_query_execution(**kwargs)
\* exec_id = res["QueryExecutionId"]; then wait_athena_query_to_succeed is
\* entered: elapsed = 0.
StartQueryExecution ==
    /\ pc = "start"
    /\ kwargs' = Kwargs(passed)
    /\ \E id \in ExecIds : execId' = id
    /\ nStart' = nStart + 1
    /\ elapsed' = 0
    /\ pc' = "wait"
    /\ UNCHANGED <<dateVars, metricVars, otherVars, passed, delta, timeout, polls, status, seen, polledIds, nStop,
                   waitResult, err, manifestRead, result>>

\* One iteration whose poll returns SUCCEEDED: return.
PollSucceeded ==
    /\ pc = "wait"
    /\ polls' = polls + 1
    /\ polledIds' = polledIds \cup {execId}
    /\ status' = "SUCCEEDED"
    /\ seen' = seen \cup {"SUCCEEDED"}
    /\ waitResult' = "returned"
    /\ pc' = "read"
    /\ UNCHANGED <<dateVars, metricVars, otherVars, passed, kwargs, delta, timeout, elapsed, execId, nStart, nStop, err,
                   manifestRead, result>>

\* One iteration whose poll returns FAILED or CANCELLED: raise RuntimeError,
\* which run_athena_query does not catch.
PollFailed ==
    /\ pc = "wait"
    /\ \E s \in {x \in AthenaStates : IsFailureState(x)} :
        /\ status' = s
        /\ seen' = seen \cup {s}
        /\ err' = RuntimeError(execId, s)
    /\ polls' = polls + 1
    /\ polledIds' = polledIds \cup {execId}
    /\ waitResult' = "RuntimeError"
    /\ pc' = "raised"
    /\ UNCHANGED <<dateVars, metricVars, otherVars, passed, kwargs, delta, timeout, elapsed, execId, nStart, nStop,
                   manifestRead, result>>

\* if elapsed > timeout
TimedOut(e, t) == e > t

\* n >= 1 consecutive iterations whose polls all return a non-terminal state
\* (the states in S, the last of them last), none of the first n - 1 ending
\* the loop: each sleeps delta and adds delta to elapsed; after the n-th,
\* TimeoutError if elapsed > timeout, else the loop goes on, unless range() is
\* exhausted: then the function falls off its end and returns None.
NonTerminalPolls(n, S, last) ==
    /\ pc = "wait"
    /\ n >= 1
    /\ polls + n <= RangeLimit
    /\ ~TimedOut(elapsed + (n - 1) * delta, timeout)
    /\ polls' = polls + n
    /\ polledIds' = polledIds \cup {execId}
    /\ status' = last
    /\ seen' = seen \cup S
    /\ elapsed' = elapsed + n * delta
    /\ IF TimedOut(elapsed', timeout)
         THEN /\ waitResult' = "TimeoutError"
              /\ err' = TimeoutError(timeout)
              /\ pc' = "raised"
         ELSE IF polls' = RangeLimit
           THEN /\ waitResult' = "returned"
                /\ err' = err
                /\ pc' = "read"
           ELSE /\ waitResult' = waitResult
                /\ err' = err
                /\ pc' = "wait"
    /\ UNCHANGED <<dateVars, metricVars, otherVars, passed, kwargs, delta, timeout, execId, nStart, nStop, manifestRead, result>>

\* One iteration whose poll returns a non-terminal state.  Iterations are
\* followed one by one for the first MaxPolls polls and for the last one of
\* range().
PollNonTerminal ==
    /\ polls < MaxPolls \/ polls = RangeLimit - 1
    /\ \E s \in NonTerminalStates : NonTerminalPolls(1, {s}, s)

\* The iterations up to the last but one of range(), all returning a
\* non-terminal state, taken as one step (possible only while elapsed stays
\* within timeout: delta = 0, or a timeout of at least about RangeLimit * delta).
PollNonTerminalRun ==
    /\ polls <= MaxPolls
    /\ RangeLimit - 1 - polls > 1
    /\ \E S \in (SUBSET NonTerminalStates) \ {{}} : \E s \in S :
          NonTerminalPolls(RangeLimit - 1 - polls, S, s)

\* read_athena_query_result: s3path_manifest.read_text(bsm=bsm), then the lazy
\* frame; run_athena_query returns (lazy_df, exec_id).  The manifest exists
\* once the execution has succeeded; otherwise the read may find it (the
\* execution succeeded since the last poll) or raise.
ReadAthenaQueryResult ==
    /\ pc = "read"
    /\ manifestRead' = manifestRead \cup {ManifestOf(execId)}
    /\ \E found \in (IF status = "SUCCEEDED" THEN {TRUE} ELSE BOOLEAN) :
         IF found
           THEN /\ result' = <<"lazy_df", execId>>
                /\ err' = err
                /\ pc' = "done"
           ELSE /\ result' = result
                /\ err' = [type |-> "S3ReadError", key |-> ManifestOf(execId)]
                /\ pc' = "raised"
    /\ UNCHANGED <<dateVars, metricVars, otherVars, passed, kwargs, delta, timeout, elapsed, polls, status, seen, polledIds,
                   execId, nStart, nStop, waitResult>>

NextAthena ==
    \/ StartQueryExecution
    \/ PollSucceeded
    \/ PollFailed
    \/ PollNonTerminal
    \/ PollNonTerminalRun
    \/ ReadAthenaQueryResult


(***************************************************************************)
(*              utils.py: calculate_date_ranges and its dates              *)
(***************************************************************************)

\* Bounds: today is drawn from the days of NumYears years from FirstYear on.
FirstYear == 2023
NumYears == 3

Years == FirstYear .. (FirstYear + NumYears - 1)

\* datetime.date: the proleptic Gregorian calendar.
IsLeap(y) == y % 4 = 0 /\ (y % 100 # 0 \/ y % 400 = 0)

DaysInMonth(y, m) ==
    IF m = 2 THEN (IF IsLeap(y) THEN 29 ELSE 28)
    ELSE IF m \in {4, 6, 9, 11} THEN 30 ELSE 31

Date(y, m, d) == [year |-> y, month |-> m, day |-> d]

RECURSIVE DaysBeforeMonth(_, _)
DaysBeforeMonth(y, m) ==
    IF m = 1 THEN 0 ELSE DaysBeforeMonth(y, m - 1) + DaysInMonth(y, m - 1)

\* date.toordinal(): 0001-01-01 is day 1.
ToOrdinal(t) ==
    LET y == t.year - 1
    IN  y * 365 + (y \div 4) - (y \div 100) + (y \div 400)
          + DaysBeforeMonth(t.year, t.month) + t.day

\* date.weekday(), counted from Sunday instead
Weekday_FromSunday(t) == ToOrdinal(t) % 7

\* date.weekday(): Monday is 0, Sunday is 6.
Weekday(t) == (ToOrdinal(t) + 6) % 7

\* date - timedelta(days=1)
PrevDay(t) ==
    IF t.day > 1 THEN Date(t.year, t.month, t.day - 1)
    ELSE IF t.month > 1
      THEN Date(t.year, t.month - 1, DaysInMonth(t.year, t.month - 1))
      ELSE Date(t.year - 1, 12, 31)

\* date - timedelta(days=n)
RECURSIVE MinusDays(_, _)
MinusDays(t, n) == IF n = 0 THEN t ELSE MinusDays(PrevDay(t), n - 1)

\* date.replace(month=m, day=1)
ReplaceMonthDay1(t, m) == Date(t.year, m, 1)

\* date.replace(day=1)
ReplaceDay1(t) == Date(t.year, t.month, 1)

Digits == <<"0", "1", "2", "3", "4", "5", "6", "7", "8", "9">>
Digit(n) == Digits[n + 1]

\* strftime with "%Y" "%m" "%d" joined by sep: zero-padded to 4, 2 and 2
\* digits; a string is the sequence of its characters.
FormatDate(t, sep) ==
    << Digit(t.year \div 1000), Digit((t.year \div 100) % 10),
       Digit((t.year \div 10) % 10), Digit(t.year % 10), sep,
       Digit(t.month \div 10), Digit(t.month % 10), sep,
       Digit(t.day \div 10), Digit(t.day % 10) >>

\* strftime("%Y/%m/%d")
Strftime(t) == FormatDate(t, "/")

DigitValue(c) == CHOOSE n \in 0 .. 9 : Digits[n + 1] = c
IsDigit(c) == \E n \in 0 .. 9 : Digits[n + 1] = c

\* What ParseDate gives for a string strptime raises ValueError on.
ValueError == Date(0, 0, 0)

\* _parse_date: datetime.strptime(date_str, "%Y-%m-%d").date(), for the
\* zero-padded form; ValueError on anything that is not a date.
ParseDate(str) ==
    IF /\ Len(str) = 10 /\ str[5] = "-" /\ str[8] = "-"
       /\ \A i \in {1, 2, 3, 4, 6, 7, 9, 10} : IsDigit(str[i])
    THEN LET y == DigitValue(str[1]) * 1000 + DigitValue(str[2]) * 100
                    + DigitValue(str[3]) * 10 + DigitValue(str[4])
             m == DigitValue(str[6]) * 10 + DigitValue(str[7])
             d == DigitValue(str[9]) * 10 + DigitValue(str[10])
         IN  IF y >= 1 /\ m \in 1 .. 12 /\ d >= 1 /\ d <= DaysInMonth(y, m)
             THEN Date(y, m, d) ELSE ValueError
    ELSE ValueError

\* _get_current_quarter, dividing the month itself by 3
GetCurrentQuarter_MonthNotShifted(t) == (t.month \div 3) + 1

\* _get_current_quarter
GetCurrentQuarter(t) == ((t.month - 1) \div 3) + 1

\* Python truthiness of an argument that is None or a string.
Truthy(x) == x # NoneStr /\ x # <<>>

Returned(a, b) == [kind |-> "returned", start |-> a, end |-> b]
Raised(type) == [kind |-> "raised", type |-> type]

\* end_date of the weekly branch, without the day taken off
WeeklyEnd_StartOfThisWeek(start_of_this_week) == start_of_this_week

\* (start_of_this_week - timedelta(days=1)): Sunday of the previous week
WeeklyEnd(start_of_this_week) == MinusDays(start_of_this_week, 1)

\* calculate_date_ranges(frequency, start_date, end_date) on the day t.
CalculateDateRanges(t, frequency, start_date, end_date) ==
    IF Truthy(start_date) /\ Truthy(end_date)
    THEN LET start_date_obj == ParseDate(start_date)
             end_date_obj == ParseDate(end_date)
         IN  IF start_date_obj = ValueError \/ end_date_obj = ValueError
             THEN Raised("ValueError")
             ELSE Returned(Strftime(start_date_obj), Strftime(end_date_obj))
    ELSE IF frequency = "weekly"
    THEN LET start_of_this_week == MinusDays(t, Weekday(t))
         IN  Returned(Strftime(MinusDays(start_of_this_week, 7)),
                      Strftime(WeeklyEnd(start_of_this_week)))
    ELSE IF frequency = "monthly"
    THEN LET first_day_of_this_month == ReplaceDay1(t)
             last_day_of_previous_month == MinusDays(first_day_of_this_month, 1)
         IN  Returned(Strftime(ReplaceDay1(last_day_of_previous_month)),
                      Strftime(last_day_of_previous_month))
    ELSE IF frequency = "quarterly"
    THEN LET current_quarter == GetCurrentQuarter(t)
             first_month_of_current_quarter == (current_quarter - 1) * 3 + 1
             first_day_of_current_quarter ==
                 ReplaceMonthDay1(t, first_month_of_current_quarter)
             last_day_of_previous_quarter ==
                 MinusDays(first_day_of_current_quarter, 1)
             start_month_of_previous_quarter ==
                 ((last_day_of_previous_quarter.month - 1) \div 3) * 3 + 1
         IN  Returned(Strftime(ReplaceMonthDay1(last_day_of_previous_quarter,
                                                start_month_of_previous_quarter)),
                      Strftime(last_day_of_previous_quarter))
    \* no branch taken: the parameters are returned as they came
    ELSE Returned(start_date, end_date)

AllDays ==
    {Date(y, m, d) : y \in Years, m \in 1 .. 12, d \in 1 .. 31}

\* Every day of the years of the model.
Days == {t \in AllDays : t.day <= DaysInMonth(t.year, t.month)}

\* --frequency {daily|weekly|monthly|quarterly}, or none given.
Frequencies == {None, "daily", "weekly", "monthly", "quarterly"}

\* The explicit dates a caller passes: nothing, the empty string, two dates
\* in YYYY-MM-DD form (in and out of order) and a string that is no date.
ExplicitDates ==
    {NoneStr, <<>>, FormatDate(Date(FirstYear, 12, 31), "-"),
     FormatDate(Date(FirstYear + 1, 1, 15), "-"),
     <<"2", "0", "2", "4", "-", "0", "2", "-", "3", "0">>}

InitDates == today \in Days /\ dateArgs = NoCall /\ dateOut = NoCall

\* One call of calculate_date_ranges; datetime.now().date() is today.
CallCalculateDateRanges ==
    /\ dateOut = NoCall
    /\ \E f \in Frequencies, sd \in ExplicitDates, ed \in ExplicitDates :
         /\ dateArgs' = [frequency |-> f, start_date |-> sd, end_date |-> ed]
         /\ dateOut' = CalculateDateRanges(today, f, sd, ed)
    /\ UNCHANGED <<athenaVars, metricVars, otherVars, today>>

NextDates == CallCalculateDateRanges

(***************************************************************************)
(*                      utils.py: get_country_from_ip                      *)
(***************************************************************************)

\* What reader.get(ip) of the GeoLite2 reader can do: raise (the argument is
\* no IP address), return None (no record for the address), or return a
\* record.  Of a record, the model keeps its keys, the keys of its "country"
\* entry and the iso_code of that entry.
LookupRaises == [kind |-> "raises", keys |-> {}, country_keys |-> {}, iso_code |-> None]
LookupNone == [kind |-> "none", keys |-> {}, country_keys |-> {}, iso_code |-> None]
Match(keys, country_keys, iso) ==
    [kind |-> "match", keys |-> keys, country_keys |-> country_keys, iso_code |-> iso]

\* A full record, a record of a continent only, and a record whose country
\* entry has names but no iso_code.
MatchNepal == Match({"continent", "country"}, {"iso_code", "names"}, "NP")
MatchContinentOnly == Match({"continent"}, {}, None)
MatchCountryWithoutIso == Match({"continent", "country"}, {"names"}, None)
Lookups == {LookupRaises, LookupNone, MatchNepal, MatchContinentOnly, MatchCountryWithoutIso}

\* What a call returned, or the exception that left it.
ReturnedValue(v) == [kind |-> "returned", value |-> v]

\* get_country_from_ip(ip), reader.get(ip) answering with lookup.
GetCountryFromIp(lookup) ==
    IF lookup.kind = "raises" THEN ReturnedValue("N/A")
    ELSE IF lookup.kind = "match" /\ "country" \in lookup.keys
         THEN IF "iso_code" \in lookup.country_keys
              THEN ReturnedValue(lookup.iso_code)
              ELSE Raised("KeyError")
         ELSE ReturnedValue("N/A")

(***************************************************************************)
(*                        utils.py: analyze_metrics                        *)
(***************************************************************************)

\* Bound: the tables analysed have at most MaxRows rows.
MaxRows == 2

\* Object keys of the log rows; a string is the sequence of its characters.
\* "TM/proj1/f.geojson", "TM/meta.json", "TM/meta-json", "hdx/proj1/f.zip"
\* and "/proj1/f.geojson" (a key whose first segment is empty).
KeyTMFile == <<"T", "M", "/", "p", "r", "o", "j", "1", "/", "f", ".", "g", "e", "o", "j", "s", "o", "n">>
KeyTMMeta == <<"T", "M", "/", "m", "e", "t", "a", ".", "j", "s", "o", "n">>
KeyHdxFile == <<"h", "d", "x", "/", "p", "r", "o", "j", "1", "/", "f", ".", "z", "i", "p">>
KeySlashFile == <<"/", "p", "r", "o", "j", "1", "/", "f", ".", "g", "e", "o", "j", "s", "o", "n">>
KeyTMMetaLike == <<"T", "M", "/", "m", "e", "t", "a", "-", "j", "s", "o", "n">>
Keys == {KeyTMFile, KeyTMMeta, KeyTMMetaLike, KeyHdxFile, KeySlashFile}

\* The method column prepare_df derives from the operation (REST.GET.OBJECT).
Methods == {"GET", "HEAD", "PUT", "POST", "DELETE"}

RemoteIps == {"1.2.3.4", "5.6.7.8"}

\* prepare_df: df["top_level_key"] = df["key"].apply(lambda x: x.split("/")[0]):
\* the characters before the first "/", the whole key if it has none.
TopLevelKey(key) ==
    LET slashes == {i \in 1 .. Len(key) : key[i] = "/"}
    IN  IF slashes = {} THEN key
        ELSE SubSeq(key, 1, (CHOOSE i \in slashes : \A j \in slashes : i <= j) - 1)

\* The country column of these tables: that of a reader which knows the
\* first address only.
CountryOf(ip) ==
    GetCountryFromIp(IF ip = "1.2.3.4" THEN MatchNepal ELSE LookupNone).value

\* The value of the referrer column for a request without a referrer.
DirectOrNA == <<"D", "i", "r", "e", "c", "t", " ", "o", "r", " ", "N", "/", "A">>

\* A row of the prepared table, with the columns analyze_metrics works on;
\* the requests of these tables come without a referrer.
Row(k, m, ip) ==
    [key |-> k, top_level_key |-> TopLevelKey(k), method |-> m, remoteip |-> ip,
     country |-> CountryOf(ip), referrer |-> DirectOrNA]

Rows == {Row(k, m, ip) : k \in Keys, m \in Methods, ip \in RemoteIps}

\* The pattern of folder_df["key"].str.contains("meta.json").
MetaJsonPattern == <<"m", "e", "t", "a", ".", "j", "s", "o", "n">>

\* re.search(pattern, str) for a pattern of literal characters and ".", which
\* stands for any character (str.contains takes its argument as a regular
\* expression).
RegexSearch(pattern, str) ==
    \E i \in 1 .. (Len(str) - Len(pattern) + 1) :
        \A j \in 1 .. Len(pattern) :
            pattern[j] = "." \/ str[i + j - 1] = pattern[j]

\* Series.nunique() of a column.
NUnique(table, col) == Cardinality({table[i][col] : i \in DOMAIN table})

\* folder_df[folder_df["method"] == "GET"], taken from the whole table
DownloadDf_WholeTable(folder_df) ==
    LET IsGet(r) == r.method = "GET" IN SelectSeq(df, IsGet)

\* download_df = folder_df[folder_df["method"] == "GET"]
DownloadDf(folder_df) ==
    LET IsGet(r) == r.method = "GET" IN SelectSeq(folder_df, IsGet)

\* ~folder_df["method"].isin(["POST", "PUT", "DELETE"]), with DELETE left out
IsInteraction_DeleteCounted(r) == r.method \notin {"POST", "PUT"}

\* ~folder_df["method"].isin(["POST", "PUT", "DELETE"])
IsInteraction(r) == r.method \notin {"POST", "PUT", "DELETE"}

\* interaction_df
InteractionDf(folder_df) == SelectSeq(folder_df, IsInteraction)

\* folder_df[folder_df["method"].isin(["PUT", "POST"])]
UploadDf(folder_df) ==
    LET IsUpload(r) == r.method \in {"PUT", "POST"} IN SelectSeq(folder_df, IsUpload)

\* Series.value_counts(): the values of a column with the number of rows
\* that have each, the most frequent first; values with the same number of
\* rows are taken in the order of their first row.
ValueCounts(table, col) ==
    LET values == {table[i][col] : i \in DOMAIN table}
        Count(v) == Cardinality({i \in DOMAIN table : table[i][col] = v})
        First(v) == CHOOSE i \in DOMAIN table :
                        /\ table[i][col] = v
                        /\ \A j \in DOMAIN table : table[j][col] = v => i <= j
        Before(w, v) == Count(w) > Count(v) \/ (Count(w) = Count(v) /\ First(w) < First(v))
    IN  [k \in 1 .. Cardinality(values) |->
            LET v == CHOOSE u \in values :
                         Cardinality({w \in values : Before(w, u)}) = k - 1
            IN  <<v, Count(v)>>]

\* .head(n)
Head_(s, n) == SubSeq(s, 1, IF Len(s) < n THEN Len(s) ELSE n)

\* The number of entries of popular_files_by_download, of
\* top_user_locations_by_dowload and of top_referrers_by_download.
TopFiles == 10
TopLocations == 5
TopReferrers == 5

\* analyze_metrics(df, folder_name): the counts and the rankings of the
\* snapshot; a ranking (a dict) is the sequence of its items.  (The sizes are
\* left out, and so are the project/feature/fileformat columns that
\* extract_key_components adds to a folder's rows; they enter none of these.)
AnalyzeMetrics(table, folder_name) ==
    LET InFolder(r) == r.top_level_key = folder_name
        scoped == IF Truthy(folder_name) THEN SelectSeq(table, InFolder) ELSE table
        NotMeta(r) == ~RegexSearch(MetaJsonPattern, r.key)
        folder_df == SelectSeq(scoped, NotMeta)
        interaction_df == InteractionDf(folder_df)
        download_df == DownloadDf(folder_df)
    IN  [total_overall_interactions_count |-> Len(interaction_df),
         total_files_downloads_count |-> Len(download_df),
         total_unique_files_downloaded |-> NUnique(download_df, "key"),
         total_dataset_uploaded_count |-> NUnique(UploadDf(folder_df), "key"),
         unique_users_overall |-> NUnique(folder_df, "remoteip"),
         unique_users_by_download |-> NUnique(download_df, "remoteip"),
         popular_files_by_download |-> Head_(ValueCounts(download_df, "key"), TopFiles),
         top_user_locations_by_dowload |->
             Head_(ValueCounts(download_df, "country"), TopLocations),
         top_referrers_by_download |->
             Head_(ValueCounts(download_df, "referrer"), TopReferrers)]

\* The tables analysed: every sequence of at most MaxRows rows.
Tables == UNION {[1 .. n -> Rows] : n \in 0 .. MaxRows}

\* folder_name: None (overall), or the top level key of some key.
Scopes == {NoneStr} \cup {TopLevelKey(k) : k \in Keys}

InitMetrics == df \in Tables /\ scope = NoneStr /\ metrics = NoMetrics

\* One call analyze_metrics(df, folder_name).
CallAnalyzeMetrics ==
    /\ metrics = NoMetrics
    /\ \E folder_name \in Scopes :
         /\ scope' = folder_name
         /\ metrics' = AnalyzeMetrics(df, folder_name)
    /\ UNCHANGED <<athenaVars, dateVars, otherVars, df>>

NextMetrics == CallAnalyzeMetrics

\* Bounds of the tables of downloads: the files downloaded, and the
\* downloads of one file.
MaxFiles == 6
MaxDownloads == 2

\* The i-th file "TM/f<i>" and a download of it: every file is downloaded
\* from an address, a country and a referrer of its own.
FileKey(i) == <<"T", "M", "/", "f", Digit(i)>>
DownloadOf(i) ==
    [key |-> FileKey(i), top_level_key |-> TopLevelKey(FileKey(i)), method |-> "GET",
     remoteip |-> "10.0.0." \o Digit(i), country |-> "C" \o Digit(i),
     referrer |-> <<"h", Digit(i)>>]

\* The table in which file i is downloaded downloads[i] times: the first
\* download of every file, then the second of those that have one, and so on.
DownloadTable(downloads) ==
    LET n == Len(downloads)
        grid == [k \in 1 .. n * MaxDownloads |-> <<((k - 1) % n) + 1, ((k - 1) \div n) + 1>>]
        Made(cell) == downloads[cell[1]] >= cell[2]
        made == SelectSeq(grid, Made)
    IN  [k \in 1 .. Len(made) |-> DownloadOf(made[k][1])]

DownloadTables ==
    {DownloadTable(downloads) :
        downloads \in UNION {[1 .. n -> 1 .. MaxDownloads] : n \in 0 .. MaxFiles}}

\* A call of analyze_metrics on a table of downloads.
InitRanking == df \in DownloadTables /\ scope = NoneStr /\ metrics = NoMetrics

(***************************************************************************)
(*        utils.py: prepare_df and generate_full_report_email              *)
(***************************************************************************)

\* Bounds: a report is generated from a table of at most MaxReportRows rows;
\* a sequence of monthly runs goes on for at most MaxMonths months.
MaxReportRows == 3
MaxMonths == 6

\* The object keys "-", "logs/a", "athena/q" and "TEST-OBJECT", beside the
\* keys of the metrics part.
KeyDash == <<"-">>
KeyLogs == <<"l", "o", "g", "s", "/", "a">>
KeyAthena == <<"a", "t", "h", "e", "n", "a", "/", "q">>
KeyTestObject == <<"T", "E", "S", "T", "-", "O", "B", "J", "E", "C", "T">>
ReportKeys == {KeyDash, KeyLogs, KeyAthena, KeyTestObject, KeyTMFile, KeyHdxFile}

\* The operation column of the access log: "REST.GET.OBJECT", "REST.PUT.OBJECT".
OpGet == <<"R", "E", "S", "T", ".", "G", "E", "T", ".", "O", "B", "J", "E", "C", "T">>
OpPut == <<"R", "E", "S", "T", ".", "P", "U", "T", ".", "O", "B", "J", "E", "C", "T">>
Operations == {OpGet, OpPut}

\* The referrer column of the access log: a quoted URL, "-" in quotes for
\* a request without one.
RefTasks == <<"\"", "h", "t", "t", "p", "s", ":", "/", "/", "t", "a", "s", "k", "s", ".", "h", "o", "t", "o", "s", "m", ".", "o", "r", "g", "/", "p", "\"">>
RefNone == <<"\"", "-", "\"">>

\* The timestamp column: a string "yyyy/MM/dd" as Athena returns it, a
\* datetime once pd.to_datetime has converted it.
TimestampString(t) == [dtype |-> "object", chars |-> Strftime(t), date |-> ValueError]
Datetime(t) == [dtype |-> "datetime64", chars |-> <<>>, date |-> t]

\* A row of the table as collected from Athena, with the columns the report
\* derives its own from.
RawRowFrom(k, op, ip, ref, ts) ==
    [key |-> k, operation |-> op, remoteip |-> ip, referrer |-> ref, timestamp |-> ts]
RawRow(k, op, ip) == RawRowFrom(k, op, ip, RefTasks, TimestampString(Date(FirstYear, 1, 1)))
RawRows == {RawRow(k, op, "1.2.3.4") : k \in ReportKeys, op \in Operations}
ReportTables == UNION {[1 .. n -> RawRows] : n \in 0 .. MaxReportRows}

\* str.split(sep) for a one-character sep.
RECURSIVE Split(_, _)
Split(str, sep) ==
    LET at == {i \in 1 .. Len(str) : str[i] = sep}
    IN  IF at = {} THEN <<str>>
        ELSE LET i == CHOOSE i \in at : \A j \in at : i <= j
             IN  <<SubSeq(str, 1, i - 1)>> \o Split(SubSeq(str, i + 1, Len(str)), sep)

\* The string of a sequence of characters.
RECURSIVE Str(_)
Str(chars) == IF chars = <<>> THEN "" ELSE Head(chars) \o Str(Tail(chars))

\* prepare_df: x.split(".")[1] if "." in x else x
Method(operation) ==
    IF \E i \in 1 .. Len(operation) : operation[i] = "."
    THEN Str(Split(operation, ".")[2]) ELSE Str(operation)

\* str.strip(c): the string without its leading and trailing c.
StripChar(str, c) ==
    LET kept == {i \in 1 .. Len(str) : str[i] # c}
    IN  IF kept = {} THEN <<>>
        ELSE SubSeq(str, CHOOSE i \in kept : \A j \in kept : i <= j,
                         CHOOSE i \in kept : \A j \in kept : i >= j)

Letters ==
    {"a", "b", "c", "d", "e", "f", "g", "h", "i", "j", "k", "l", "m", "n", "o", "p",
     "q", "r", "s", "t", "u", "v", "w", "x", "y", "z",
     "A", "B", "C", "D", "E", "F", "G", "H", "I", "J", "K", "L", "M", "N", "O", "P",
     "Q", "R", "S", "T", "U", "V", "W", "X", "Y", "Z"}
SchemeChars == Letters \cup {Digits[i] : i \in 1 .. Len(Digits)} \cup {"+", "-", "."}

\* urlparse(url).netloc: a scheme is what stands before the first ":", if
\* it begins with a letter and holds scheme characters only; the netloc is
\* what follows "//" after the scheme, up to the next "/", "?" or "#", and
\* is empty when no "//" follows.
Netloc(urlstring) ==
    LET colons == {i \in 1 .. Len(urlstring) : urlstring[i] = ":"}
        i == IF colons = {} THEN 0 ELSE CHOOSE c \in colons : \A d \in colons : c <= d
        rest == IF i > 1 /\ urlstring[1] \in Letters
                         /\ \A j \in 1 .. i - 1 : urlstring[j] \in SchemeChars
                THEN SubSeq(urlstring, i + 1, Len(urlstring)) ELSE urlstring
        delims == {j \in 3 .. Len(rest) : rest[j] \in {"/", "?", "#"}}
    IN  IF Len(rest) >= 2 /\ rest[1] = "/" /\ rest[2] = "/"
        THEN SubSeq(rest, 3, IF delims = {} THEN Len(rest)
                             ELSE (CHOOSE j \in delims : \A k \in delims : j <= k) - 1)
        ELSE <<>>

\* prepare_df: urlparse(str(url).strip('"')).netloc if that is not empty,
\* else "Direct or N/A"
Referrer(ref) ==
    LET netloc == Netloc(StripChar(ref, "\""))
    IN  IF netloc # <<>> THEN netloc ELSE DirectOrNA

\* prepare_df(df) raises when get_country_from_ip raises for some row.
PrepareDfRaises(table) ==
    \E i \in 1 .. Len(table) : GetCountryFromIp(reader[table[i].remoteip]).kind = "raised"

\* prepare_df(df): the columns method, top_level_key and country are added
\* to every row and the referrer column is replaced; the table object
\* itself is changed.  (requestdatetime, bytessent and objectsize enter
\* neither the sections nor the counts of the report.)
PrepareDf(table) ==
    [i \in 1 .. Len(table) |->
        [key |-> table[i].key, operation |-> table[i].operation,
         remoteip |-> table[i].remoteip, timestamp |-> table[i].timestamp,
         method |-> Method(table[i].operation),
         top_level_key |-> TopLevelKey(table[i].key),
         referrer |-> Referrer(table[i].referrer),
         country |-> LET c == GetCountryFromIp(reader[table[i].remoteip])
                     IN  IF c.kind = "returned" THEN c.value ELSE None]]

\* Series.unique(): the distinct values in the order of their first appearance.
RECURSIVE Unique(_)
Unique(s) ==
    IF s = <<>> THEN <<>>
    ELSE LET before == Unique(SubSeq(s, 1, Len(s) - 1))
             x == s[Len(s)]
         IN  IF \E i \in 1 .. Len(before) : before[i] = x THEN before
             ELSE Append(before, x)

\* str.startswith(prefix)
StartsWith(str, prefix) ==
    Len(prefix) <= Len(str) /\ SubSeq(str, 1, Len(prefix)) = prefix

FolderAthena == <<"a", "t", "h", "e", "n", "a">>

\* the folders skipped, with the two excluded names left out
IsSkippedFolder_LogOnly(folder) == StartsWith(folder, <<"l", "o", "g">>)

\* folder.startswith("log") or folder in ["athena", "TEST-OBJECT"]
IsSkippedFolder(folder) ==
    StartsWith(folder, <<"l", "o", "g">>) \/ folder \in {FolderAthena, KeyTestObject}

\* The loop over df["top_level_key"].unique(): one section, made of the
\* folder's metrics and titled "section: <folder>", for each folder that is
\* not skipped.
FolderSections(prepared) ==
    LET folders == Unique([i \in 1 .. Len(prepared) |-> prepared[i].top_level_key])
        Kept(folder) == ~IsSkippedFolder(folder)
        kept == SelectSeq(folders, Kept)
    IN  [i \in 1 .. Len(kept) |->
            [folder |-> kept[i], metrics |-> AnalyzeMetrics(prepared, kept[i])]]

\* str.replace(old, new) for one-character old and new
Replace(str, old, new) ==
    [i \in 1 .. Len(str) |-> IF str[i] = old THEN new ELSE str[i]]

\* f"{start_date.replace('/', '_')}-{end_date.replace('/', '_')}"
RangeLabel(start_date, end_date) ==
    Replace(start_date, "/", "_") \o <<"-">> \o Replace(end_date, "/", "_")

JsonSuffix == <<".", "j", "s", "o", "n">>

\* str(datetime.now().year)
YearStr(t) ==
    << Digit(t.year \div 1000), Digit((t.year \div 100) % 10),
       Digit((t.year \div 10) % 10), Digit(t.year % 10) >>

\* s3dir_result.joinpath(year, file name): a path under the base directory.
JoinPath(year, file_name) == <<year, file_name>>

\* upload_metrics_json_to_s3: the snapshot is written to
\* <base>/<year of now>/<start>-<end>.json.
MetricsJsonPath(t, start_date, end_date) ==
    JoinPath(YearStr(t), RangeLabel(start_date, end_date) \o JsonSuffix)

UploadMetricsJsonToS3(s3, snapshot, start_date, end_date, t) ==
    (MetricsJsonPath(t, start_date, end_date) :> snapshot) @@ s3

\* num_months=5 of get_previous_months_filenames
NumMonths == 5

\* The loop of get_previous_months_filenames, n months back from start.
RECURSIVE PreviousMonthsFrom(_, _)
PreviousMonthsFrom(start, n) ==
    IF n = 0 THEN <<>>
    ELSE LET month_end == MinusDays(ReplaceDay1(start), 1)
             month_start == ReplaceDay1(month_end)
             filename == FormatDate(month_start, "_") \o <<"-">>
                           \o FormatDate(month_end, "_") \o JsonSuffix
         IN  <<filename>> \o PreviousMonthsFrom(month_start, n - 1)

\* get_previous_months_filenames(start_date, end_date): the file names of the
\* five months before start_date, the latest first.
GetPreviousMonthsFilenames(start_date, end_date) ==
    PreviousMonthsFrom(ParseDate(Replace(start_date, "/", "-")), NumMonths)

\* reversed(list)
Reversed(s) == [i \in 1 .. Len(s) |-> s[Len(s) + 1 - i]]

\* The path the lookup of a historical file reads.
HistFilePath(t, hist_filename) == JoinPath(YearStr(t), hist_filename)

\* historical_data: the content of each historical file that is found, in the
\* order of the file names, and overall_metrics appended; each entry keeps
\* the file it was taken from (for overall_metrics, the file just written).
HistoricalData(s3, historical_filenames, overall_metrics, current_file, t) ==
    LET Found(f) == HistFilePath(t, f) \in DOMAIN s3
        found == SelectSeq(historical_filenames, Found)
    IN  [i \in 1 .. Len(found) |->
            [file |-> found[i], data |-> s3[HistFilePath(t, found[i])]]]
          \o <<[file |-> current_file, data |-> overall_metrics]>>

\* The data of the trend chart: the labels (dates) and the two series, and
\* for each point of the series the period of the file it was taken from.
TrendChart(s3, start_date, end_date, overall_metrics, t) ==
    LET historical_filenames == GetPreviousMonthsFilenames(start_date, end_date)
        current == RangeLabel(start_date, end_date)
        historical_data ==
            HistoricalData(s3, historical_filenames, overall_metrics,
                           current \o JsonSuffix, t)
        rev == Reversed(historical_data)
        revnames == Reversed(historical_filenames)
    IN  [kind |-> "chart",
         dates |-> [i \in 1 .. Len(revnames) |-> Split(revnames[i], ".")[1]]
                     \o <<current>>,
         downloads |-> [i \in 1 .. Len(rev) |-> rev[i].data.total_files_downloads_count]
                         \o <<overall_metrics.total_files_downloads_count>>,
         users |-> [i \in 1 .. Len(rev) |-> rev[i].data.unique_users_overall]
                     \o <<overall_metrics.unique_users_overall>>,
         periods |-> [i \in 1 .. Len(rev) |-> Split(rev[i].file, ".")[1]]
                       \o <<current>>,
         read |-> [i \in 1 .. Len(historical_filenames) |->
                      HistFilePath(t, historical_filenames[i])]]

\* generate_full_report_email(df, ..., start_date, end_date, bsm, s3dir_result)
\* at the time t, s3 being the snapshots stored so far: the prepared table,
\* the overall metrics, the snapshots after the call, the chart and the
\* folder sections.
GenerateFullReportEmail(table, start_date, end_date, s3dir_result, t, s3) ==
    LET prepared == PrepareDf(table)
        overall_metrics == AnalyzeMetrics(prepared, NoneStr)
        written == IF s3dir_result
                   THEN UploadMetricsJsonToS3(s3, overall_metrics, start_date, end_date, t)
                   ELSE s3
    IN  IF PrepareDfRaises(table)
        THEN [kind |-> "raised", type |-> "KeyError", store |-> s3]
        ELSE [kind |-> "report",
              start_date |-> start_date,
              end_date |-> end_date,
              df |-> prepared,
              overall_metrics |-> overall_metrics,
              store |-> written,
              chart |-> IF s3dir_result
                        THEN TrendChart(written, start_date, end_date, overall_metrics, t)
                        ELSE NoChart,
              sections |-> FolderSections(prepared)]

\* The range of a monthly run at the time t.
MonthlyRange(t) == CalculateDateRanges(t, "monthly", NoneStr, NoneStr)

\* The days of the month a run is made on.
RunDays == {1, 28}

\* The months a sequence of runs begins in.
FirstRuns == {Date(FirstYear, m, d) : m \in {2, 10}, d \in RunDays}

\* The addresses of the tables, and the readers tried: one that knows the
\* first address only, and those that answer otherwise for the second.
ReaderFor(lookup) == [ip \in RemoteIps |-> IF ip = "1.2.3.4" THEN MatchNepal ELSE lookup]
KnownReader == ReaderFor(LookupNone)
Readers == {ReaderFor(lookup) : lookup \in Lookups}

\* Two tables with different counts, for the runs whose snapshots are kept.
TrendTables ==
    {<<RawRow(KeyTMFile, OpGet, "1.2.3.4")>>,
     <<RawRow(KeyTMFile, OpGet, "1.2.3.4"), RawRow(KeyHdxFile, OpGet, "5.6.7.8")>>}

NoSnapshots == <<>>

ReportIdle ==
    /\ now = Date(1, 1, 1) /\ monthNo = 0 /\ ran = FALSE
    /\ rawDf = <<>> /\ store = NoSnapshots /\ report = NoReport
    /\ reader = KnownReader

\* A report to be generated from some table, without a snapshot directory.
InitReport ==
    /\ now \in FirstRuns /\ monthNo = 0 /\ ran = FALSE
    /\ rawDf \in ReportTables /\ store = NoSnapshots /\ report = NoReport
    /\ reader = KnownReader

\* generate_full_report_email(df, ..., s3dir_result=None)
ReportWithoutSnapshots ==
    /\ ~ran
    /\ LET range == MonthlyRange(now)
       IN  report' = GenerateFullReportEmail(rawDf, range.start, range.end,
                                             FALSE, now, store)
    /\ store' = report'.store
    /\ ran' = TRUE
    /\ UNCHANGED <<athenaVars, dateVars, metricVars, restVars, deleteVars, mainVars, now, monthNo, rawDf, reader>>

NextReport == ReportWithoutSnapshots

\* The first of a sequence of monthly runs, on an empty snapshot directory.
InitTrend ==
    /\ now \in FirstRuns /\ monthNo = 0 /\ ran = FALSE
    /\ rawDf = <<>> /\ store = NoSnapshots /\ report = NoReport
    /\ reader \in Readers

\* The run of this month: generate_full_report_email(df, ..., s3dir_result)
\* for the range of the previous month.
MonthlyRun ==
    /\ ~ran
    /\ \E table \in TrendTables :
         /\ rawDf' = table
         /\ LET range == MonthlyRange(now)
            IN  report' = GenerateFullReportEmail(table, range.start, range.end,
                                                  TRUE, now, store)
    /\ store' = report'.store
    /\ ran' = TRUE
    /\ UNCHANGED <<athenaVars, dateVars, metricVars, restVars, deleteVars, mainVars, now, monthNo, reader>>

\* A month goes by, with or without a run; the next run is on some day of the
\* next month.
NextMonth ==
    /\ monthNo < MaxMonths
    /\ \E d \in RunDays :
         now' = IF now.month = 12 THEN Date(now.year + 1, 1, d)
                ELSE Date(now.year, now.month + 1, d)
    /\ monthNo' = monthNo + 1
    /\ ran' = FALSE
    /\ UNCHANGED <<athenaVars, dateVars, metricVars, restVars, deleteVars, mainVars, rawDf, store, report, reader>>

NextTrend == MonthlyRun \/ NextMonth

(***************************************************************************)
(*                aws_athena_query.py: _delete_s3_objects                  *)
(***************************************************************************)

\* Bound: a listing comes in at most MaxPages pages.
MaxPages == 3

\* Directories and object keys, each a sequence of path segments:
\* <RESULT_PATH>/athena/results/, its meta/ directory (where Athena writes the
\* data set and the manifest of a query) and the directory of the raw logs.
ResultPath == "RESULT_PATH"
ResultDir == <<ResultPath, "athena", "results">>
MetaDir == ResultDir \o <<"meta">>
LogsDir == <<"S3_LOGS_LOCATION">>
MetaManifest == MetaDir \o <<"metadata", "q1-manifest.csv">>
MetaDataFile == MetaDir \o <<"dataset", "q1", "part0.parquet">>
OldArtifact == ResultDir \o <<"2022", "20221201T000000.parquet">>
RawLog == LogsDir \o <<"2023-01-01-00-00-00-ABC">>

\* The objects a bucket may hold.
AllObjects == <<LogsDir \o <<"2023-01-02-00-00-00-DEF">>, RawLog,
                OldArtifact, MetaDataFile, MetaManifest>>
ObjectSet == {AllObjects[i] : i \in 1 .. Len(AllObjects)}

\* list_objects_v2(Bucket, Prefix): the keys of the bucket that begin with
\* the prefix (a directory, so whole segments).
UnderPrefix(objects, prefix) == {k \in objects : StartsWith(k, prefix)}

\* The listings the paginator may give for a set of keys: the keys are dealt
\* over n pages, each key on one page; a page that got no key has no
\* "Contents".
RECURSIVE InOrder(_)
InOrder(keys) ==
    IF keys = {} THEN <<>>
    ELSE LET k == CHOOSE k \in keys : TRUE IN <<k>> \o InOrder(keys \ {k})

Listings(keys) ==
    {[p \in 1 .. n |->
         LET OnPage(k) == deal[k] = p IN SelectSeq(InOrder(keys), OnPage)] :
       n \in 1 .. MaxPages, deal \in [keys -> 1 .. MaxPages]}

\* "Contents" in page
HasContents(page) == page # <<>>

\* delete_us after a delete_objects call, the batch kept
DeleteUsAfterCall_Kept(batch) == batch

\* delete_us = dict(Objects=[]) after a delete_objects call
DeleteUsAfterCall(batch) == <<>>

DeleteIdle ==
    /\ s3Objects = {} /\ s3dir = <<>> /\ pages = <<>> /\ pageNo = 0
    /\ delete_us = <<>> /\ deleteCalls = <<>> /\ delPc = "idle"

\* _delete_s3_objects(bsm, s3dir) is called on some bucket; the paginator
\* will give some listing of the keys under s3dir.
InitDelete ==
    /\ s3Objects \in SUBSET ObjectSet
    /\ s3dir \in {MetaDir, LogsDir}
    /\ pages \in Listings(UnderPrefix(s3Objects, s3dir))
    /\ pageNo = 1
    /\ delete_us = <<>>
    /\ deleteCalls = <<>>
    /\ delPc = "loop"

\* An iteration of the loop on a page with "Contents": its keys are appended
\* to delete_us and one delete_objects call is made, which succeeds.
DeletePage ==
    /\ delPc = "loop" /\ pageNo <= Len(pages) /\ HasContents(pages[pageNo])
    /\ LET batch == delete_us \o pages[pageNo]
       IN  /\ deleteCalls' = Append(deleteCalls, batch)
           /\ s3Objects' = s3Objects \ {batch[i] : i \in 1 .. Len(batch)}
           /\ delete_us' = DeleteUsAfterCall(batch)
    /\ pageNo' = pageNo + 1
    /\ UNCHANGED <<athenaVars, dateVars, metricVars, restVars, reportVars, mainVars, s3dir, pages, delPc>>

\* The same iteration when delete_objects raises: the call has been made, the
\* exception ends _delete_s3_objects, earlier batches stay deleted.
DeletePageFails ==
    /\ delPc = "loop" /\ pageNo <= Len(pages) /\ HasContents(pages[pageNo])
    /\ deleteCalls' = Append(deleteCalls, delete_us \o pages[pageNo])
    /\ delete_us' = delete_us \o pages[pageNo]
    /\ delPc' = "raised"
    /\ UNCHANGED <<athenaVars, dateVars, metricVars, restVars, reportVars, mainVars, s3Objects, s3dir, pages, pageNo>>

\* An iteration on a page without "Contents": nothing is done.
SkipPage ==
    /\ delPc = "loop" /\ pageNo <= Len(pages) /\ ~HasContents(pages[pageNo])
    /\ pageNo' = pageNo + 1
    /\ UNCHANGED <<athenaVars, dateVars, metricVars, restVars, reportVars, mainVars, s3Objects, s3dir, pages,
                   delete_us, deleteCalls, delPc>>

\* The pages are exhausted: _delete_s3_objects returns.
DeleteReturns ==
    /\ delPc = "loop" /\ pageNo > Len(pages)
    /\ delPc' = "done"
    /\ UNCHANGED <<athenaVars, dateVars, metricVars, restVars, reportVars, mainVars, s3Objects, s3dir, pages,
                   pageNo, delete_us, deleteCalls>>

NextDelete == DeletePage \/ DeletePageFails \/ SkipPage \/ DeleteReturns

(***************************************************************************)
(*                 app.py and query.py: the fetch query                    *)
(***************************************************************************)

\* The two select lists: "*" and the curated projection ("requestid,
\* operation, SPLIT_PART(key, '/', 1) AS dir, ..., timestamp, remoteip").
SelectStar == "*"
SelectCurated == "requestid, operation, ..., timestamp, remoteip"

NoWhere == [kind |-> "none"]

\* select = "*"; if not SELECT_ALL: select = <the curated projection>
SelectList(SELECT_ALL) == IF SELECT_ALL THEN SelectStar ELSE SelectCurated

\* query.generate_athena_fetch_query: SELECT {select} FROM "{db}"."{table}"
\* WHERE key != '-' and (timestamp BETWEEN '{START_DATE}' AND '{END_DATE}');
GenerateAthenaFetchQuery(ATHENA_DATABASE, ATHENA_TABLE, START_DATE, END_DATE, SELECT_ALL) ==
    [select |-> SelectList(SELECT_ALL),
     from |-> <<ATHENA_DATABASE, ATHENA_TABLE>>,
     where |-> [kind |-> "where", key_not |-> "-", column |-> "timestamp",
                between |-> <<START_DATE, END_DATE>>]]

\* app.athena_fetch_query: SELECT {select} FROM "{db}"."{table}"
AthenaFetchQuery(ATHENA_DATABASE, ATHENA_TABLE, SELECT_ALL) ==
    [select |-> SelectList(SELECT_ALL),
     from |-> <<ATHENA_DATABASE, ATHENA_TABLE>>,
     where |-> NoWhere]

(***************************************************************************)
(*             app.py: main and upload_df_to_s3_in_formats                 *)
(***************************************************************************)

\* Bound: at most MaxMissing of the environment variables are absent.
MaxMissing == 1

RequiredVars == {"S3_LOGS_LOCATION", "ATHENA_DATABASE", "ATHENA_TABLE", "RESULT_PATH"}
EmailVars == {"SMTP_TARGET_EMAIL_ADDRESS", "SMTP_HOST", "SMTP_PORT", "EMAIL_USER",
              "EMAIL_PASSWORD"}
EnvVars == RequiredVars \cup EmailVars \cup {"TARGET_EMAIL_ADDRESS"}

\* The environments of a run.
Environments == {EnvVars \ missing : missing \in {m \in SUBSET EnvVars : Cardinality(m) <= MaxMissing}}

\* --remove_meta, --select_all, --remove_original_logs, --email
Args == [remove_meta : BOOLEAN, select_all : BOOLEAN,
         remove_original_logs : BOOLEAN, email : BOOLEAN]

\* check_env_vars(enable_email): the variables found missing.
MissingVars(enable_email) ==
    (RequiredVars \cup (IF enable_email THEN EmailVars ELSE {})) \ environ

\* os.getenv(name): the value of the variable (named after it), None if absent.
GetEnv(name) == IF name \in environ THEN name ELSE None

\* f"{os.getenv('RESULT_PATH')}/{prefix}/" with prefix = "athena/results"
ResultPathOf(result_path) == <<result_path, "athena", "results">>

\* the meta directory, taken to be the result directory itself
MetaResultPathOf_ResultDir(result_path) == <<result_path, "athena", "results">>

\* f"{os.getenv('RESULT_PATH')}/{prefix}/meta/"
MetaResultPathOf(result_path) == <<result_path, "athena", "results", "meta">>

\* now.strftime("%Y%m%dT%H%M%S"), at midnight.
IsoDate(t) == Str(FormatDate(t, "")) \o "T000000"

\* base_path.joinpath(f"{file_name}.parquet")
ParquetFilePath(s3_base_dir, t) ==
    s3_base_dir \o <<Str(YearStr(t)), IsoDate(t) \o ".parquet">>

\* base_path.joinpath(f"{file_name}.csv.gz")
CsvFilePath(s3_base_dir, t) ==
    s3_base_dir \o <<Str(YearStr(t)), IsoDate(t) \o ".csv.gz">>

NoUrl == [kind |-> "none"]

\* generate_presigned_url with an expiry of one day
GeneratePresignedUrl_OneDay(csv_file_path) ==
    [kind |-> "url", method |-> "get_object", key |-> csv_file_path,
     expires_in |-> 3600 * 24]

\* s3_client.generate_presigned_url("get_object", Params={"Bucket":
\* csv_file_path.bucket, "Key": csv_file_path.key}, ExpiresIn=3600 * 24 * 7)
GeneratePresignedUrl(csv_file_path) ==
    [kind |-> "url", method |-> "get_object", key |-> csv_file_path,
     expires_in |-> 3600 * 24 * 7]

\* The remote calls a run makes.
StartQueryCall(sql, database, s3dir_result) ==
    [op |-> "start_query_execution", sql |-> sql, database |-> database,
     output |-> s3dir_result]
ReadDatasetCall(s3dir_result) == [op |-> "read_dataset", dir |-> s3dir_result]
PutObjectCall(key) == [op |-> "put_object", key |-> key]
SmtpCall(to) == [op |-> "smtp_session", to |-> to]

\* The objects a successful query leaves in its result directory.
QueryOutput(s3dir_result) ==
    {s3dir_result \o <<"dataset", "q1", "part0.parquet">>,
     s3dir_result \o <<"metadata", "q1-manifest.csv">>}

\* The buckets a run begins on: the raw logs, and possibly an artifact and
\* meta objects of an earlier run.
InitialBuckets == {{RawLog}, {RawLog, OldArtifact, MetaManifest}}

\* datetime.now() at the upload.
UploadTimes == {Date(FirstYear, 1, 5), Date(FirstYear, 12, 31)}

\* s3dir_result_meta and s3dir_result of main.
S3dirResultMeta == MetaResultPathOf(GetEnv("RESULT_PATH"))
S3dirResult == ResultPathOf(GetEnv("RESULT_PATH"))

MainIdle ==
    /\ args = [remove_meta |-> FALSE, select_all |-> FALSE,
               remove_original_logs |-> FALSE, email |-> FALSE]
    /\ environ = {} /\ envRead = {} /\ mainPc = "idle" /\ calls = <<>> /\ url = NoUrl

\* main begins, with some flags, in some environment, on some bucket.
InitMain ==
    /\ args \in Args /\ environ \in Environments
    /\ envRead = {} /\ mainPc = "start" /\ calls = <<>> /\ url = NoUrl
    /\ now \in UploadTimes /\ monthNo = 0 /\ ran = FALSE
    /\ rawDf = <<>> /\ store = NoSnapshots /\ report = NoReport
    /\ reader = KnownReader
    /\ s3Objects \in InitialBuckets
    /\ s3dir = <<>> /\ pages = <<>> /\ pageNo = 0
    /\ delete_us = <<>> /\ deleteCalls = <<>> /\ delPc = "idle"

\* check_env_vars(args.email) finds a variable missing: sys.exit(1).
CheckEnvVarsExits ==
    /\ mainPc = "start" /\ MissingVars(args.email) # {}
    /\ mainPc' = "exit"
    /\ UNCHANGED <<athenaVars, dateVars, metricVars, restVars, reportVars, deleteVars,
                   args, environ, envRead, calls, url>>

\* check_env_vars(args.email) finds nothing missing.
CheckEnvVarsPasses ==
    /\ mainPc = "start" /\ MissingVars(args.email) = {}
    /\ mainPc' = "checked"
    /\ UNCHANGED <<athenaVars, dateVars, metricVars, restVars, reportVars, deleteVars,
                   args, environ, envRead, calls, url>>

\* run_athena_query(bsm, s3dir_result_meta, athena_fetch_query(database,
\* table, args.select_all), database) returns: the query has been submitted
\* and its output lies in the meta directory.
RunAthenaQuery ==
    /\ mainPc = "checked"
    /\ envRead' = envRead \cup {"RESULT_PATH", "ATHENA_DATABASE", "ATHENA_TABLE"}
    /\ calls' = Append(calls,
                  StartQueryCall(AthenaFetchQuery(GetEnv("ATHENA_DATABASE"),
                                                  GetEnv("ATHENA_TABLE"), args.select_all),
                                 GetEnv("ATHENA_DATABASE"), S3dirResultMeta))
    /\ s3Objects' = s3Objects \cup QueryOutput(S3dirResultMeta)
    /\ mainPc' = "queried"
    /\ UNCHANGED <<athenaVars, dateVars, metricVars, restVars, reportVars, args, environ, url,
                   s3dir, pages, pageNo, delete_us, deleteCalls, delPc>>

\* run_athena_query raises after the submission (the query failed or timed out).
RunAthenaQueryRaises ==
    /\ mainPc = "checked"
    /\ envRead' = envRead \cup {"RESULT_PATH", "ATHENA_DATABASE", "ATHENA_TABLE"}
    /\ calls' = Append(calls,
                  StartQueryCall(AthenaFetchQuery(GetEnv("ATHENA_DATABASE"),
                                                  GetEnv("ATHENA_TABLE"), args.select_all),
                                 GetEnv("ATHENA_DATABASE"), S3dirResultMeta))
    /\ mainPc' = "raised"
    /\ UNCHANGED <<athenaVars, dateVars, metricVars, restVars, reportVars, deleteVars,
                   args, environ, url>>

\* df = lazy_df.collect(): the data set of the query is read.
Collect ==
    /\ mainPc = "queried"
    /\ calls' = Append(calls, ReadDatasetCall(S3dirResultMeta))
    /\ mainPc' = "collected"
    /\ UNCHANGED <<athenaVars, dateVars, metricVars, restVars, reportVars, deleteVars,
                   args, environ, envRead, url>>

\* upload_df_to_s3_in_formats: pq.write_table to <name>.parquet.
WriteParquet ==
    /\ mainPc = "collected"
    /\ envRead' = envRead \cup {"RESULT_PATH"}
    /\ calls' = Append(calls, PutObjectCall(ParquetFilePath(S3dirResult, now)))
    /\ s3Objects' = s3Objects \cup {ParquetFilePath(S3dirResult, now)}
    /\ mainPc' = "parquet_written"
    /\ UNCHANGED <<athenaVars, dateVars, metricVars, restVars, reportVars, args, environ, url,
                   s3dir, pages, pageNo, delete_us, deleteCalls, delPc>>

\* upload_df_to_s3_in_formats: csv.write_csv through gzip to <name>.csv.gz.
WriteCsv ==
    /\ mainPc = "parquet_written"
    /\ calls' = Append(calls, PutObjectCall(CsvFilePath(S3dirResult, now)))
    /\ s3Objects' = s3Objects \cup {CsvFilePath(S3dirResult, now)}
    /\ mainPc' = "csv_written"
    /\ UNCHANGED <<athenaVars, dateVars, metricVars, restVars, reportVars, args, environ, envRead,
                   url, s3dir, pages, pageNo, delete_us, deleteCalls, delPc>>

\* One of the two writes raises: upload_df_to_s3_in_formats returns nothing.
WriteRaises ==
    /\ mainPc \in {"collected", "parquet_written"}
    /\ envRead' = envRead \cup {"RESULT_PATH"}
    /\ calls' = Append(calls, PutObjectCall(IF mainPc = "collected"
                                            THEN ParquetFilePath(S3dirResult, now)
                                            ELSE CsvFilePath(S3dirResult, now)))
    /\ mainPc' = "raised"
    /\ UNCHANGED <<athenaVars, dateVars, metricVars, restVars, reportVars, deleteVars,
                   args, environ, url>>

\* upload_df_to_s3_in_formats returns the pre-signed URL of the csv.gz object.
PresignUrl ==
    /\ mainPc = "csv_written"
    /\ url' = GeneratePresignedUrl(CsvFilePath(S3dirResult, now))
    /\ mainPc' = "uploaded"
    /\ UNCHANGED <<athenaVars, dateVars, metricVars, restVars, reportVars, deleteVars,
                   args, environ, envRead, calls>>

\* if args.remove_meta: _delete_s3_objects(bsm, s3dir_result_meta) is called.
StartDeleteMeta ==
    /\ mainPc = "uploaded" /\ args.remove_meta
    /\ s3dir' = S3dirResultMeta
    /\ pages' \in Listings(UnderPrefix(s3Objects, S3dirResultMeta))
    /\ pageNo' = 1
    /\ delPc' = "loop"
    /\ mainPc' = "deleting"
    /\ UNCHANGED <<athenaVars, dateVars, metricVars, restVars, reportVars, s3Objects, delete_us,
                   deleteCalls, args, environ, envRead, calls, url>>

\* _delete_s3_objects has returned, or was not called.
AfterDeleteMeta ==
    /\ \/ mainPc = "deleting" /\ delPc = "done"
       \/ mainPc = "uploaded" /\ ~args.remove_meta
    /\ mainPc' = "deleted"
    /\ UNCHANGED <<athenaVars, dateVars, metricVars, restVars, reportVars, deleteVars,
                   args, environ, envRead, calls, url>>

\* _delete_s3_objects has raised.
DeleteMetaRaised ==
    /\ mainPc = "deleting" /\ delPc = "raised"
    /\ mainPc' = "raised"
    /\ UNCHANGED <<athenaVars, dateVars, metricVars, restVars, reportVars, deleteVars,
                   args, environ, envRead, calls, url>>

\* Without --email main is over.
Finish ==
    /\ mainPc = "deleted" /\ ~args.email
    /\ mainPc' = "done"
    /\ UNCHANGED <<athenaVars, dateVars, metricVars, restVars, reportVars, deleteVars,
                   args, environ, envRead, calls, url>>

\* With --email: the report is generated, and
\* os.getenv("TARGET_EMAIL_ADDRESS").split(",") raises AttributeError when the
\* variable is not set.
TargetEmailsRaises ==
    /\ mainPc = "deleted" /\ args.email
    /\ GetEnv("TARGET_EMAIL_ADDRESS") = None
    /\ envRead' = envRead \cup {"TARGET_EMAIL_ADDRESS"}
    /\ mainPc' = "raised"
    /\ UNCHANGED <<athenaVars, dateVars, metricVars, restVars, reportVars, deleteVars,
                   args, environ, calls, url>>

\* With --email: the report is generated and send_email opens its SMTP
\* session, which succeeds (sent is TRUE) or raises.
SendEmail ==
    /\ mainPc = "deleted" /\ args.email
    /\ GetEnv("TARGET_EMAIL_ADDRESS") # None
    /\ envRead' = envRead \cup {"TARGET_EMAIL_ADDRESS", "EMAIL_USER", "SMTP_HOST",
                                "SMTP_PORT", "EMAIL_PASSWORD"}
    /\ calls' = Append(calls, SmtpCall(GetEnv("TARGET_EMAIL_ADDRESS")))
    /\ \E sent \in BOOLEAN : mainPc' = IF sent THEN "done" ELSE "raised"
    /\ UNCHANGED <<athenaVars, dateVars, metricVars, restVars, reportVars, deleteVars,
                   args, environ, url>>

NextMain ==
    \/ CheckEnvVarsExits \/ CheckEnvVarsPasses
    \/ RunAthenaQuery \/ RunAthenaQueryRaises \/ Collect
    \/ WriteParquet \/ WriteCsv \/ WriteRaises \/ PresignUrl
    \/ StartDeleteMeta \/ DeletePage \/ DeletePageFails \/ SkipPage \/ DeleteReturns
    \/ AfterDeleteMeta \/ DeleteMetaRaised
    \/ Finish \/ TargetEmailsRaises \/ SendEmail

(***************************************************************************)
(*   send_email of app.py, email.py and email_results.py                   *)
(***************************************************************************)

\* The three variants of send_email, named by their module.
Variants == {"app", "email", "email_results"}

\* The calls a variant makes on the SMTP session, in the order it makes
\* them: smtplib.SMTP(host, port), starttls, login, send_message (sendmail
\* in email.py), quit (the exit of the with block in email_results.py).
SmtpSteps == <<"connect", "starttls", "login", "send", "quit">>

\* What a call of smtplib can raise: the three SMTP errors that
\* email_results.py names, and an error that is no SMTPException (a refused
\* connection is an OSError).
SmtpErrors == {"SMTPAuthenticationError", "SMTPServerDisconnected", "SMTPException"}
SmtpFaults == SmtpErrors \cup {"OSError"}

\* The recipient lists tried: one to MaxRecipients addresses, numbered.
MaxRecipients == 3
RecipientLists == {[i \in 1..n |-> i] : n \in 1..MaxRecipients}
ContentTypes == {"plain", "html"}

Steps == {SmtpSteps[i] : i \in 1..Len(SmtpSteps)}

\* The step after step s, "end" after the last one.
NextStep(s) ==
    LET i == CHOOSE j \in 1..Len(SmtpSteps) : SmtpSteps[j] = s
    IN  IF i = Len(SmtpSteps) THEN "end" ELSE SmtpSteps[i + 1]

\* The except clause of email_results.send_email that catches error e, by
\* the message it logs.
ExceptClause(e) ==
    CASE e = "SMTPAuthenticationError" ->
            "Failed to authenticate with SMTP server. Check your credentials."
      [] e = "SMTPServerDisconnected" -> "Disconnected from SMTP server."
      [] e = "SMTPException" -> "SMTP error occurred: " \o e
      [] OTHER -> "Failed to send email: " \o e

EmailIdle ==
    /\ emVariant = "app" /\ emTo = <<>> /\ emContentType = "plain"
    /\ emPc = "idle" /\ emSessions = 0 /\ emLog = <<>> /\ emErr = None

\* A call of one of the three variants begins.
InitEmail ==
    /\ emVariant \in Variants /\ emTo \in RecipientLists
    /\ emContentType \in (IF emVariant = "email_results" THEN ContentTypes ELSE {"plain"})
    /\ emPc = "connect" /\ emSessions = 0 /\ emLog = <<>> /\ emErr = None

\* What a call made at step s leaves of the count of SMTP sessions opened.
SessionsAfter(s, n) == IF s = "connect" THEN n + 1 ELSE n

\* app.send_email: the next call on the session succeeds; the function
\* returns after quit.
AppSendEmailStep ==
    /\ emVariant = "app" /\ emPc \in Steps
    /\ emSessions' = SessionsAfter(emPc, emSessions)
    /\ emPc' = IF NextStep(emPc) = "end" THEN "returned" ELSE NextStep(emPc)
    /\ UNCHANGED <<coreVars, uploadVars, dailyVars, emVariant, emTo, emContentType, emLog, emErr>>

\* app.send_email: the next call on the session raises; the function has
\* no try, the exception leaves it.
AppSendEmailRaises ==
    /\ emVariant = "app" /\ emPc \in Steps
    /\ \E e \in SmtpFaults : emErr' = e
    /\ emSessions' = SessionsAfter(emPc, emSessions)
    /\ emPc' = "raised"
    /\ UNCHANGED <<coreVars, uploadVars, dailyVars, emVariant, emTo, emContentType, emLog>>

\* email.send_email: the next call on the session succeeds; after quit the
\* function prints the success and returns.
EmailSendEmailStep ==
    /\ emVariant = "email" /\ emPc \in Steps
    /\ emSessions' = SessionsAfter(emPc, emSessions)
    /\ IF NextStep(emPc) = "end"
       THEN /\ emLog' = Append(emLog, [level |-> "print", msg |-> "Email sent successfully!"])
            /\ emPc' = "returned"
       ELSE /\ emLog' = emLog
            /\ emPc' = NextStep(emPc)
    /\ UNCHANGED <<coreVars, uploadVars, dailyVars, emVariant, emTo, emContentType, emErr>>

\* email.send_email: the next call raises; except Exception prints it.
EmailSendEmailCaught ==
    /\ emVariant = "email" /\ emPc \in Steps
    /\ \E e \in SmtpFaults :
        /\ emErr' = e
        /\ emLog' = Append(emLog, [level |-> "print", msg |-> "Failed to send email: " \o e])
    /\ emSessions' = SessionsAfter(emPc, emSessions)
    /\ emPc' = "returned"
    /\ UNCHANGED <<coreVars, uploadVars, dailyVars, emVariant, emTo, emContentType>>

\* email_results.send_email: the next call on the session succeeds; the
\* success is logged once the with block is left, which sends QUIT.
EmailResultsStep ==
    /\ emVariant = "email_results" /\ emPc \in Steps
    /\ emSessions' = SessionsAfter(emPc, emSessions)
    /\ IF NextStep(emPc) = "end"
       THEN /\ emLog' = Append(emLog, [level |-> "info", msg |-> "Email sent successfully!"])
            /\ emPc' = "returned"
       ELSE /\ emLog' = emLog
            /\ emPc' = NextStep(emPc)
    /\ UNCHANGED <<coreVars, uploadVars, dailyVars, emVariant, emTo, emContentType, emErr>>

\* email_results.send_email: the next call raises; the first except clause
\* that matches logs the error.
EmailResultsCaught ==
    /\ emVariant = "email_results" /\ emPc \in Steps
    /\ \E e \in SmtpFaults :
        /\ emErr' = e
        /\ emLog' = Append(emLog, [level |-> "error", msg |-> ExceptClause(e)])
    /\ emSessions' = SessionsAfter(emPc, emSessions)
    /\ emPc' = "returned"
    /\ UNCHANGED <<coreVars, uploadVars, dailyVars, emVariant, emTo, emContentType>>

NextEmail ==
    \/ AppSendEmailStep
    \/ AppSendEmailRaises
    \/ EmailSendEmailStep
    \/ EmailSendEmailCaught
    \/ EmailResultsStep
    \/ EmailResultsCaught

(***************************************************************************)
(*   Successive runs of upload_df_to_s3_in_formats of app.py               *)
(***************************************************************************)

\* Bounds: the rows of a result batch, and the uploads followed.
MaxBatch == 2
MaxUploads == 2

\* A row of a query result: its requestid and the rest of its columns.
RequestIds == {"REQ1", "REQ2"}
Payloads == {"old", "new"}
ResultRow(id, rest) == [requestid |-> id, rest |-> rest]

\* The batches read_athena_query_result returns: the rows of one query
\* result, no two of them with the same requestid.
Batches ==
    {b \in UNION {[1..n -> {ResultRow(id, p) : id \in RequestIds, p \in Payloads}] :
                    n \in 0..MaxBatch} :
        \A i, j \in 1..Len(b) : b[i].requestid = b[j].requestid => i = j}

\* datetime.now() of the uploads: the first days of one January.
UploadDays == {Date(FirstYear, 1, d) : d \in 1..MaxUploads + 1}

\* upload_df_to_s3_in_formats(df, s3_base_dir, bsm) at time t: the table is
\* written as it is to <year>/<timestamp>.parquet and <year>/<timestamp>.csv.gz;
\* no object is read (the merge with the existing dataset is a TODO).
UploadDfToS3InFormats(s3, table, s3_base_dir, t) ==
    (ParquetFilePath(s3_base_dir, t) :> table)
        @@ (CsvFilePath(s3_base_dir, t) :> table) @@ s3

UploadIdle ==
    /\ upBatch = <<>> /\ upStore = <<>> /\ upNow = Date(1, 1, 1)
    /\ upLog = <<>> /\ upPc = "idle"

\* The first run has its batch; nothing has been persisted yet.
InitUpload ==
    /\ upBatch \in Batches /\ upStore = <<>> /\ upNow = Date(FirstYear, 1, 1)
    /\ upLog = <<>> /\ upPc = "collected"

\* main calls upload_df_to_s3_in_formats with the batch of this run.
UploadBatch ==
    /\ upPc = "collected"
    /\ upStore' = UploadDfToS3InFormats(upStore, upBatch, ResultDir, upNow)
    /\ upLog' = Append(upLog, upBatch)
    /\ upPc' = "uploaded"
    /\ UNCHANGED <<coreVars, emailVars, dailyVars, upBatch, upNow>>

\* A later run of main, on a later day: its query returns a batch, possibly
\* the same rows again (the date ranges of two runs may overlap).
NextRun ==
    /\ upPc = "uploaded" /\ Len(upLog) < MaxUploads
    /\ \E t \in UploadDays, b \in Batches :
        /\ ToOrdinal(t) > ToOrdinal(upNow)
        /\ upNow' = t
        /\ upBatch' = b
    /\ upPc' = "collected"
    /\ UNCHANGED <<coreVars, emailVars, dailyVars, upStore, upLog>>

NextUpload ==
    \/ UploadBatch
    \/ NextRun

(***************************************************************************)
(*   utils.py: analyze_metrics_by_day and insert_to_postgres, and          *)
(*   generate_full_report_email on the same table                          *)
(***************************************************************************)

\* Bounds: the rows of the table, and the calls that prepare it.
MaxDailyRows == 2
MaxPrepares == 2

\* pd.to_datetime(value, format="%Y/%m/%d"): a datetime stays what it is.
ToDatetime(value) ==
    IF value.dtype = "datetime64" THEN value
    ELSE Datetime(ParseDate(Replace(value.chars, "/", "-")))

\* The days of the log rows, and the tables as collected: up to
\* MaxDailyRows requests for one file.
LogDays == {Date(FirstYear, 1, 5), Date(FirstYear, 1, 6)}
DailyRows ==
    {RawRowFrom(KeyTMFile, op, ip, ref, TimestampString(t)) :
        op \in Operations, ip \in RemoteIps, ref \in {RefTasks, RefNone}, t \in LogDays}
DailyTables == UNION {[1 .. n -> DailyRows] : n \in 0 .. MaxDailyRows}

\* The groups of df.groupby(df["timestamp"]): the days of the table in
\* ascending order.
RECURSIVE SortedDays(_)
SortedDays(days) ==
    IF days = {} THEN <<>>
    ELSE LET first == CHOOSE d \in days : \A e \in days : ToOrdinal(d) <= ToOrdinal(e)
         IN  <<first>> \o SortedDays(days \ {first})

\* analyze_metrics_by_day(df), after prepare_df and the conversion of the
\* timestamp column: one row per day, with the stats and the three
\* value_counts of the day's rows.  (The two sizes are left out.)
AnalyzeMetricsByDay(prepared) ==
    LET days == SortedDays({prepared[i].timestamp.date : i \in 1 .. Len(prepared)})
    IN  [k \in 1 .. Len(days) |->
            LET OfDay(r) == r.timestamp.date = days[k]
                group == SelectSeq(prepared, OfDay)
                download_df == DownloadDf(group)
            IN  [date |-> days[k],
                 stats |-> [interactions_count |-> Len(InteractionDf(group)),
                            downloads_count |-> Len(download_df),
                            unique_downloads |-> NUnique(download_df, "key"),
                            uploads_count |-> NUnique(UploadDf(group), "key"),
                            unique_users |-> NUnique(group, "remoteip")],
                 files_by_download |-> ValueCounts(download_df, "key"),
                 locations |-> ValueCounts(group, "country"),
                 referrers |-> ValueCounts(group, "referrer")]]

\* json.dumps(value): the text of the value.
JsonDumps(value) == [json |-> value]

\* df[col] = df[col].apply(json.dumps) for the four columns.
DumpColumns(table) ==
    [i \in 1 .. Len(table) |->
        [date |-> table[i].date,
         stats |-> JsonDumps(table[i].stats),
         files_by_download |-> JsonDumps(table[i].files_by_download),
         locations |-> JsonDumps(table[i].locations),
         referrers |-> JsonDumps(table[i].referrers)]]

\* The if_exists argument insert_to_postgres gives to to_sql.
IfExists == "o"

\* DataFrame.to_sql(name, engine, if_exists=..., index=False) on the tables
\* db of the database: ValueError for an if_exists that is none of "fail",
\* "replace" and "append", and for "fail" on a table that exists.
ToSql(db, name, rows, if_exists) ==
    IF if_exists \notin {"fail", "replace", "append"} THEN Raised("ValueError")
    ELSE IF name \notin DOMAIN db THEN [kind |-> "written", db |-> (name :> rows) @@ db]
    ELSE CASE if_exists = "fail" -> Raised("ValueError")
           [] if_exists = "replace" -> [kind |-> "written", db |-> (name :> rows) @@ db]
           [] if_exists = "append" ->
                 [kind |-> "written", db |-> (name :> (db[name] \o rows)) @@ db]

\* f"CREATE INDEX IF NOT EXISTS idx_{table_name}_date ON {table_name}(date)"
DateIndex(table_name) == "idx_" \o table_name \o "_date"

TableName == "daily_metrics"
NoDaily == <<[date |-> ValueError]>>

\* The database before the call: without the table, or with the table and
\* a row of an earlier day.
Databases ==
    {<<>>, (TableName :> <<[date |-> Date(FirstYear, 1, 1)]>>)}

DailyIdle ==
    /\ prepCalls = <<>> /\ firstPrepared = <<>> /\ daily = NoDaily
    /\ pgTables = <<>> /\ pgIndexes = {} /\ pgPc = "idle" /\ pgErr = None

\* A table has been collected; nothing has been called on it yet.
InitDaily ==
    /\ now = Date(FirstYear, 2, 1) /\ monthNo = 0 /\ ran = FALSE
    /\ rawDf \in DailyTables /\ store = NoSnapshots /\ report = NoReport
    /\ reader = KnownReader
    /\ prepCalls = <<>> /\ firstPrepared = <<>> /\ daily = NoDaily
    /\ pgTables \in Databases /\ pgIndexes = {} /\ pgPc = "idle" /\ pgErr = None

\* The table object after a call of prepare_df, as the first call left it.
FirstPrepared(table) == IF prepCalls = <<>> THEN table ELSE firstPrepared

\* analyze_metrics_by_day(df): prepare_df changes the table object, the
\* timestamp column is converted, the per-day table is returned.
CallAnalyzeMetricsByDay ==
    /\ Len(prepCalls) < MaxPrepares /\ pgPc = "idle"
    /\ LET prepared == PrepareDf(rawDf)
           converted == [i \in 1 .. Len(prepared) |->
                            [prepared[i] EXCEPT !.timestamp = ToDatetime(@)]]
       IN  /\ rawDf' = converted
           /\ daily' = AnalyzeMetricsByDay(converted)
           /\ firstPrepared' = FirstPrepared(converted)
    /\ prepCalls' = Append(prepCalls, "analyze_metrics_by_day")
    /\ UNCHANGED <<athenaVars, dateVars, metricVars, deleteVars, mainVars, emailVars,
                   uploadVars, now, monthNo, ran, store, report, reader,
                   pgTables, pgIndexes, pgPc, pgErr>>

\* generate_full_report_email(df, ...) on the same pandas table:
\* prepare_df changes the table object.
CallGenerateFullReportEmail ==
    /\ Len(prepCalls) < MaxPrepares /\ pgPc = "idle"
    /\ LET range == MonthlyRange(now)
       IN  report' = GenerateFullReportEmail(rawDf, range.start, range.end,
                                             FALSE, now, store)
    /\ rawDf' = report'.df
    /\ firstPrepared' = FirstPrepared(report'.df)
    /\ prepCalls' = Append(prepCalls, "generate_full_report_email")
    /\ UNCHANGED <<athenaVars, dateVars, metricVars, deleteVars, mainVars, emailVars,
                   uploadVars, now, monthNo, ran, store, reader,
                   daily, pgTables, pgIndexes, pgPc, pgErr>>

\* insert_to_postgres(df, table_name, connection_string) with the per-day
\* table: create_engine, then the four columns are dumped to JSON; the
\* table of no day has no columns, df[col] raises KeyError.
InsertToPostgresDumps ==
    /\ pgPc = "idle" /\ daily # NoDaily
    /\ IF daily = <<>>
       THEN /\ pgErr' = "KeyError"
            /\ pgPc' = "raised"
            /\ daily' = daily
       ELSE /\ daily' = DumpColumns(daily)
            /\ pgPc' = "dumped"
            /\ pgErr' = pgErr
    /\ UNCHANGED <<athenaVars, dateVars, metricVars, reportVars, deleteVars, mainVars,
                   emailVars, uploadVars, prepCalls, firstPrepared,
                   pgTables, pgIndexes>>

\* insert_to_postgres: df.to_sql, then CREATE INDEX IF NOT EXISTS on the
\* connection, unless to_sql has raised.
InsertToPostgresWrites ==
    /\ pgPc = "dumped"
    /\ LET res == ToSql(pgTables, TableName, daily, IfExists)
       IN  IF res.kind = "raised"
           THEN /\ pgErr' = res.type
                /\ pgPc' = "raised"
                /\ UNCHANGED <<pgTables, pgIndexes>>
           ELSE /\ pgTables' = res.db
                /\ pgIndexes' = pgIndexes \cup {DateIndex(TableName)}
                /\ pgPc' = "done"
                /\ pgErr' = pgErr
    /\ UNCHANGED <<athenaVars, dateVars, metricVars, reportVars, deleteVars, mainVars,
                   emailVars, uploadVars, prepCalls, firstPrepared, daily>>

NextDaily ==
    \/ CallAnalyzeMetricsByDay
    \/ CallGenerateFullReportEmail
    \/ InsertToPostgresDumps
    \/ InsertToPostgresWrites

(***************************************************************************)
(*                             Specifications                              *)
(***************************************************************************)

\* The parts that a specification leaves alone.
DatesIdle == today = Date(1, 1, 1) /\ dateArgs = NoCall /\ dateOut = NoCall
MetricsIdle == df = <<>> /\ scope = NoneStr /\ metrics = NoMetrics
RestIdle == EmailIdle /\ UploadIdle /\ DailyIdle
CoreIdle == AthenaIdle /\ DatesIdle /\ MetricsIdle /\ ReportIdle /\ DeleteIdle /\ MainIdle

\* A call of run_athena_query.
InitSpecAthena == InitAthena /\ DatesIdle /\ MetricsIdle /\ ReportIdle /\ DeleteIdle /\ MainIdle /\ RestIdle
SpecAthena == InitSpecAthena /\ [][NextAthena]_vars

\* A call of calculate_date_ranges.
InitSpecDates == AthenaIdle /\ InitDates /\ MetricsIdle /\ ReportIdle /\ DeleteIdle /\ MainIdle /\ RestIdle
SpecDates == InitSpecDates /\ [][NextDates]_vars

\* A call of analyze_metrics.
InitSpecMetrics == AthenaIdle /\ DatesIdle /\ InitMetrics /\ ReportIdle /\ DeleteIdle /\ MainIdle /\ RestIdle
SpecMetrics == InitSpecMetrics /\ [][NextMetrics]_vars

\* A call of analyze_metrics on a table of downloads.
InitSpecRanking == AthenaIdle /\ DatesIdle /\ InitRanking /\ ReportIdle /\ DeleteIdle /\ MainIdle /\ RestIdle
SpecRanking == InitSpecRanking /\ [][NextMetrics]_vars

\* A call of generate_full_report_email without a snapshot directory.
InitSpecReport == AthenaIdle /\ DatesIdle /\ MetricsIdle /\ InitReport /\ DeleteIdle /\ MainIdle /\ RestIdle
SpecReport == InitSpecReport /\ [][NextReport]_vars

\* Monthly runs of generate_full_report_email with a snapshot directory.
InitSpecTrend == AthenaIdle /\ DatesIdle /\ MetricsIdle /\ InitTrend /\ DeleteIdle /\ MainIdle /\ RestIdle
SpecTrend == InitSpecTrend /\ [][NextTrend]_vars

\* A call of _delete_s3_objects.
InitSpecDelete == AthenaIdle /\ DatesIdle /\ MetricsIdle /\ ReportIdle /\ InitDelete /\ MainIdle /\ RestIdle
SpecDelete == InitSpecDelete /\ [][NextDelete]_vars

\* A call of one of the variants of send_email.
InitSpecEmail == CoreIdle /\ InitEmail /\ UploadIdle /\ DailyIdle
SpecEmail == InitSpecEmail /\ [][NextEmail]_vars

\* Runs of upload_df_to_s3_in_formats, one after the other.
InitSpecUpload == CoreIdle /\ EmailIdle /\ InitUpload /\ DailyIdle
SpecUpload == InitSpecUpload /\ [][NextUpload]_vars

\* analyze_metrics_by_day, generate_full_report_email and
\* insert_to_postgres on one table.
InitSpecDaily == AthenaIdle /\ DatesIdle /\ MetricsIdle /\ DeleteIdle /\ MainIdle /\ EmailIdle /\ UploadIdle /\ InitDaily
SpecDaily == InitSpecDaily /\ [][NextDaily]_vars

\* A run of app.main.
InitSpecMain == AthenaIdle /\ DatesIdle /\ MetricsIdle /\ InitMain /\ RestIdle
SpecMain == InitSpecMain /\ [][NextMain]_vars

(***************************************************************************)
(*                     Claims about the Athena runner                      *)
(***************************************************************************)

FailureStates == {"FAILED", "CANCELLED"}
OnlyNonTerminalSeen == seen \subseteq {"QUEUED", "RUNNING"}

\* C1: wait_athena_query_to_succeed ends in exactly one of three outcomes: it
\* returns normally only if a poll observed SUCCEEDED, raises RuntimeError only
\* if a poll observed FAILED or CANCELLED, and otherwise raises TimeoutError;
\* it never returns normally when every observed status was non-terminal.
C1_ThreeOutcomes ==
    /\ waitResult \in {"none", "returned", "RuntimeError", "TimeoutError"}
    /\ waitResult = "returned" => "SUCCEEDED" \in seen
    /\ waitResult = "RuntimeError" => seen \cap FailureStates # {}
    /\ (waitResult # "none" /\ OnlyNonTerminalSeen) => waitResult = "TimeoutError"

\* C2: when a poll returns FAILED or CANCELLED the call raises, on that same
\* poll, a RuntimeError carrying the execution id and the terminal state, and
\* nothing more is done: no further poll, no second start_query_execution, no
\* manifest read.
C2_FailureRaisesAtOnce ==
    status \in FailureStates =>
        /\ pc = "raised"
        /\ waitResult = "RuntimeError"
        /\ err = [type |-> "RuntimeError", exec_id |-> execId, status |-> status]
        /\ execId \in ExecIds
        /\ nStart = 1
        /\ manifestRead = {}
        /\ result = NoResult
        /\ ~ENABLED NextAthena

\* A CANCELLED poll after several non-terminal ones has raised.
C2_Witness ==
    /\ status = "CANCELLED" /\ pc = "raised" /\ polls = 3
    /\ seen = {"QUEUED", "RUNNING", "CANCELLED"}

\* C3: if every poll returns a non-terminal state and delta > 0, TimeoutError
\* is raised after exactly floor(timeout/delta)+1 status checks, the
\* accumulated wait then lying in (timeout, timeout+delta]; no cancellation
\* request is ever sent.
C3_TimeoutAfterExactChecks ==
    /\ nStop = 0
    /\ (delta > 0 /\ waitResult # "none" /\ OnlyNonTerminalSeen) =>
          /\ waitResult = "TimeoutError"
          /\ err = [type |-> "TimeoutError", timeout |-> timeout]
          /\ polls = (timeout \div delta) + 1
          /\ elapsed = polls * delta
          /\ elapsed > timeout /\ elapsed <= timeout + delta

\* C4: run_athena_query issues exactly one start_query_execution per call,
\* reads the manifest '<exec_id>-manifest.csv' only after a poll for that same
\* execution id returned SUCCEEDED, and on success returns (lazy frame,
\* execution id).
C4_ManifestOnlyAfterSucceeded ==
    /\ nStart = (IF pc = "start" THEN 0 ELSE 1)
    /\ manifestRead # {} =>
          /\ manifestRead = {<<"metadata", execId, "-manifest.csv">>}
          /\ "SUCCEEDED" \in seen
          /\ execId \in polledIds
    /\ pc = "done" => result = <<"lazy_df", execId>>

(***************************************************************************)
(*                   Claims about calculate_date_ranges                    *)
(***************************************************************************)

\* A string of the form YYYY/MM/DD, and the date it names.
IsSlashDate(str) ==
    /\ Len(str) = 10 /\ str[5] = "/" /\ str[8] = "/"
    /\ \A i \in {1, 2, 3, 4, 6, 7, 9, 10} :
          str[i] \in {"0", "1", "2", "3", "4", "5", "6", "7", "8", "9"}
NumAt(str, i) == CHOOSE n \in 0 .. 9 : Digits[n + 1] = str[i]
AsDate(str) ==
    [year |-> NumAt(str, 1) * 1000 + NumAt(str, 2) * 100 + NumAt(str, 3) * 10
                + NumAt(str, 4),
     month |-> NumAt(str, 6) * 10 + NumAt(str, 7),
     day |-> NumAt(str, 9) * 10 + NumAt(str, 10)]
IsRealDate(t) ==
    t.year >= 1 /\ t.month \in 1 .. 12 /\ t.day \in 1 .. DaysInMonth(t.year, t.month)
\* The day number of a date; day 1 (0001-01-01) is a Monday.
Ord(t) == ToOrdinal(t)

\* calculate_date_ranges was called with frequency f and without a complete
\* explicit (start, end) pair.
CalledWithFrequency(f) ==
    /\ dateOut # NoCall
    /\ dateArgs.frequency = f
    /\ ~(Truthy(dateArgs.start_date) /\ Truthy(dateArgs.end_date))

ReturnedDates ==
    /\ dateOut.kind = "returned"
    /\ IsSlashDate(dateOut.start) /\ IsRealDate(AsDate(dateOut.start))
    /\ IsSlashDate(dateOut.end) /\ IsRealDate(AsDate(dateOut.end))

\* The first day of the current week (its Monday), month and quarter.
MondayOfThisWeek == Ord(today) - ((Ord(today) - 1) % 7)
FirstOfThisMonth == Ord([year |-> today.year, month |-> today.month, day |-> 1])
QuarterStartMonth == CHOOSE m \in {1, 4, 7, 10} : today.month \in m .. m + 2
FirstOfThisQuarter == Ord([year |-> today.year, month |-> QuarterStartMonth, day |-> 1])
FirstOfCurrentPeriod(f) ==
    IF f = "weekly" THEN MondayOfThisWeek
    ELSE IF f = "monthly" THEN FirstOfThisMonth ELSE FirstOfThisQuarter

\* C5: for each frequency in {weekly, monthly, quarterly} and every current
\* date the returned pair has start <= end, and end lies strictly before the
\* first day of the current week, month or quarter.
C5_PreviousPeriodOnly ==
    \A f \in {"weekly", "monthly", "quarterly"} :
        CalledWithFrequency(f) =>
            /\ ReturnedDates
            /\ Ord(AsDate(dateOut.start)) <= Ord(AsDate(dateOut.end))
            /\ Ord(AsDate(dateOut.end)) < FirstOfCurrentPeriod(f)

\* A weekly range asked for on a Monday, a quarterly one on the first day of
\* a quarter.
C5_Witness ==
    \/ CalledWithFrequency("weekly") /\ Ord(today) = MondayOfThisWeek
          /\ Ord(AsDate(dateOut.end)) = Ord(today) - 1
    \/ CalledWithFrequency("quarterly") /\ today.month = 7 /\ today.day = 1

\* C6: 'weekly' returns start = the Monday seven days before the Monday of the
\* current week and end = start + 6 days, both formatted YYYY/MM/DD.
C6_WeeklyRange ==
    CalledWithFrequency("weekly") =>
        /\ ReturnedDates
        /\ Ord(AsDate(dateOut.start)) = MondayOfThisWeek - 7
        /\ (Ord(AsDate(dateOut.start)) - 1) % 7 = 0
        /\ Ord(AsDate(dateOut.end)) = Ord(AsDate(dateOut.start)) + 6

\* Asked on Sunday 2024-01-07: the week of Monday 2023/12/25, across the year
\* boundary.
C6_Witness ==
    /\ CalledWithFrequency("weekly")
    /\ today = [year |-> 2024, month |-> 1, day |-> 7]
    /\ Ord(today) % 7 = 0
    /\ dateOut.start = <<"2", "0", "2", "3", "/", "1", "2", "/", "2", "5">>
    /\ dateOut.end = <<"2", "0", "2", "3", "/", "1", "2", "/", "3", "1">>

\* The previous calendar month and the previous quarter of today.
PrevMonthYear == IF today.month = 1 THEN today.year - 1 ELSE today.year
PrevMonth == IF today.month = 1 THEN 12 ELSE today.month - 1
PrevQuarterYear == IF QuarterStartMonth = 1 THEN today.year - 1 ELSE today.year
PrevQuarterStart == IF QuarterStartMonth = 1 THEN 10 ELSE QuarterStartMonth - 3

\* C7: 'monthly' returns the first through last day of the previous calendar
\* month, 'quarterly' the first through last day of the previous quarter
\* (quarters start in January, April, July, October), rolling back to the
\* previous year in January and in the first quarter.
C7_MonthlyAndQuarterlyRange ==
    /\ CalledWithFrequency("monthly") =>
          /\ ReturnedDates
          /\ AsDate(dateOut.start) =
                [year |-> PrevMonthYear, month |-> PrevMonth, day |-> 1]
          /\ AsDate(dateOut.end) =
                [year |-> PrevMonthYear, month |-> PrevMonth,
                 day |-> DaysInMonth(PrevMonthYear, PrevMonth)]
    /\ CalledWithFrequency("quarterly") =>
          /\ ReturnedDates
          /\ AsDate(dateOut.start) =
                [year |-> PrevQuarterYear, month |-> PrevQuarterStart, day |-> 1]
          /\ AsDate(dateOut.end) =
                [year |-> PrevQuarterYear, month |-> PrevQuarterStart + 2,
                 day |-> DaysInMonth(PrevQuarterYear, PrevQuarterStart + 2)]

\* 'quarterly' asked on 2024-04-15 gives 2024/01/01 to 2024/03/31.
C7_Witness ==
    /\ CalledWithFrequency("quarterly")
    /\ today = [year |-> 2024, month |-> 4, day |-> 15]
    /\ dateOut.start = <<"2", "0", "2", "4", "/", "0", "1", "/", "0", "1">>
    /\ dateOut.end = <<"2", "0", "2", "4", "/", "0", "3", "/", "3", "1">>

\* C8: without a complete explicit (start, end) pair and with a frequency
\* outside {weekly, monthly, quarterly} (None or 'daily'),
\* calculate_date_ranges fails with an error instead of returning a pair.
C8_UnknownFrequencyFails ==
    \A f \in {None, "daily"} :
        CalledWithFrequency(f) => dateOut.kind = "raised"

(***************************************************************************)
(*                      Claims about analyze_metrics                       *)
(***************************************************************************)

\* The indices of the rows of df that satisfy P.
RowsWhere(P(_)) == {i \in DOMAIN df : P(df[i])}

\* The scope as the claims word it: every row (overall) or the rows of a folder.
InScope(r) == scope = NoneStr \/ r.top_level_key = scope

\* C9 (as stated): total_overall_interactions_count is the number of rows in
\* scope whose method is none of PUT, POST, DELETE; total_files_downloads_count
\* the number of rows in scope whose method is GET;
\* total_dataset_uploaded_count the number of distinct keys among rows in scope
\* whose method is PUT or POST; unique_users_overall the number of distinct
\* remote IPs among all rows in scope.
C9_CountsOverScope ==
    metrics # NoMetrics =>
        LET Interaction(r) == InScope(r) /\ r.method \notin {"PUT", "POST", "DELETE"}
            Download(r) == InScope(r) /\ r.method = "GET"
            Upload(r) == InScope(r) /\ r.method \in {"PUT", "POST"}
        IN  /\ metrics.total_overall_interactions_count
                  = Cardinality(RowsWhere(Interaction))
            /\ metrics.total_files_downloads_count = Cardinality(RowsWhere(Download))
            /\ metrics.total_dataset_uploaded_count
                  = Cardinality({df[i].key : i \in RowsWhere(Upload)})
            /\ metrics.unique_users_overall
                  = Cardinality({df[i].remoteip : i \in RowsWhere(InScope)})

\* The key holds "meta", any one character, "json".
LooksLikeMetaJson(key) ==
    \E i \in 1 .. Len(key) - 8 :
        /\ SubSeq(key, i, i + 3) = <<"m", "e", "t", "a">>
        /\ SubSeq(key, i + 5, i + 8) = <<"j", "s", "o", "n">>

\* The rows analyze_metrics counts: those of the folder, or of the whole table
\* when folder_name is None or empty, whose key does not match meta.json.
Counted(r) ==
    /\ scope \in {NoneStr, <<>>} \/ r.top_level_key = scope
    /\ ~LooksLikeMetaJson(r.key)

\* C9 (amended): the four counts are those of C9 taken over the rows that
\* analyze_metrics counts.
C9_CountsOverCountedRows ==
    metrics # NoMetrics =>
        LET Interaction(r) == Counted(r) /\ r.method \notin {"PUT", "POST", "DELETE"}
            Download(r) == Counted(r) /\ r.method = "GET"
            Upload(r) == Counted(r) /\ r.method \in {"PUT", "POST"}
        IN  /\ metrics.total_overall_interactions_count
                  = Cardinality(RowsWhere(Interaction))
            /\ metrics.total_files_downloads_count = Cardinality(RowsWhere(Download))
            /\ metrics.total_dataset_uploaded_count
                  = Cardinality({df[i].key : i \in RowsWhere(Upload)})
            /\ metrics.unique_users_overall
                  = Cardinality({df[i].remoteip : i \in RowsWhere(Counted)})

\* One GET and one PUT on "TM/proj1/f.geojson" from two IPs, scope "TM":
\* 1 download, 1 upload, 2 users.
C9_Witness ==
    /\ df = <<Row(KeyTMFile, "GET", "1.2.3.4"), Row(KeyTMFile, "PUT", "5.6.7.8")>>
    /\ scope = <<"T", "M">>
    /\ metrics # NoMetrics
    /\ metrics.total_overall_interactions_count = 1
    /\ metrics.total_files_downloads_count = 1
    /\ metrics.total_dataset_uploaded_count = 1
    /\ metrics.unique_users_overall = 2

\* C10: for every table and every scope the snapshot satisfies
\* unique_users_overall >= unique_users_by_download.
C10_UsersOverallAtLeastDownloaders ==
    metrics # NoMetrics =>
        metrics.unique_users_overall >= metrics.unique_users_by_download

\* A folder snapshot with a downloader and a second user who only uploaded.
C10_Witness ==
    /\ metrics # NoMetrics
    /\ scope # NoneStr
    /\ metrics.unique_users_by_download = 1
    /\ metrics.unique_users_overall = 2

(***************************************************************************)
(*             Claims about prepare_df and the report's sections           *)
(***************************************************************************)

FolderDefault == <<"d", "e", "f", "a", "u", "l", "t">>
ReportDone == report.kind = "report"
SectionFolders == {report.sections[i].folder : i \in 1 .. Len(report.sections)}

\* C11: after prepare_df a row whose key is exactly "-" has top_level_key
\* "default", and the report has no folder section named "-".
C11_DashKeyIsDefault ==
    ReportDone =>
        /\ \A i \in 1 .. Len(report.df) :
               report.df[i].key = KeyDash => report.df[i].top_level_key = FolderDefault
        /\ KeyDash \notin SectionFolders

\* The distinct top_level_key values of the prepared table that are not
\* skipped: neither beginning with "log" nor "athena" nor "TEST-OBJECT".
ReportedFolders ==
    {f \in {report.df[i].top_level_key : i \in 1 .. Len(report.df)} :
        /\ ~(Len(f) >= 3 /\ f[1] = "l" /\ f[2] = "o" /\ f[3] = "g")
        /\ f # FolderAthena
        /\ f # KeyTestObject}

\* C14: generate_full_report_email emits exactly one folder section per
\* distinct top_level_key of the table, except that a folder whose name starts
\* with "log" or equals "athena" or "TEST-OBJECT" gets no section at all.
C14_OneSectionPerFolder ==
    ReportDone =>
        /\ SectionFolders = ReportedFolders
        /\ Len(report.sections) = Cardinality(ReportedFolders)

\* A report from a table with two rows of one folder and a row of a skipped
\* folder: one section.
C14_Witness ==
    /\ ReportDone
    /\ Len(report.df) = 3
    /\ report.df[1].top_level_key = report.df[3].top_level_key
    /\ report.df[2].top_level_key = FolderAthena
    /\ Len(report.sections) = 1

(***************************************************************************)
(*          Claims about the metrics snapshots and the trend chart         *)
(***************************************************************************)

ChartDrawn == ReportDone /\ report.chart # NoChart

\* The first day of the period a label "YYYY_MM_DD-YYYY_MM_DD" names, as an
\* ordinal.
PeriodStart(label) == ToOrdinal(ParseDate(Replace(SubSeq(label, 1, 10), "_", "-")))

\* C12: with snapshots enabled, whichever of the five prior snapshot files are
\* present, the chart's labels and its two series have equal length, the i-th
\* value of each series belongs to the period of the i-th label, the points
\* are in chronological order, and the current period's value appears exactly
\* once, as the last point.
C12_ChartAligned ==
    ChartDrawn =>
        LET chart == report.chart
            current == RangeLabel(report.start_date, report.end_date)
            n == Len(chart.periods)
        IN  /\ Len(chart.dates) = Len(chart.downloads)
            /\ Len(chart.dates) = Len(chart.users)
            /\ \A i \in 1 .. n : i <= Len(chart.dates) /\ chart.periods[i] = chart.dates[i]
            /\ \A i, j \in 1 .. n :
                   i < j => PeriodStart(chart.periods[i]) < PeriodStart(chart.periods[j])
            /\ chart.periods[n] = current
            /\ Cardinality({i \in 1 .. n : chart.periods[i] = current}) = 1

\* C13: the snapshot a monthly run persists for month M is stored at exactly
\* the path the historical lookup of each of the next five monthly runs reads
\* for month M, also when the runs happen in different calendar years (the
\* runs of the months in between having been made).
C13_SnapshotWhereLookedUp ==
    ChartDrawn =>
        \A p \in DOMAIN report.store :
            \A i \in 1 .. Len(report.chart.read) :
                (/\ p[2] = report.chart.read[i][2]
                 /\ \A j \in 1 .. i - 1 :
                        \E q \in DOMAIN report.store : q[2] = report.chart.read[j][2])
                => p = report.chart.read[i]

(***************************************************************************)
(*                     Claims about _delete_s3_objects                     *)
(***************************************************************************)

KeysOf(seq) == {seq[i] : i \in 1 .. Len(seq)}
ListedKeys == UNION {KeysOf(pages[p]) : p \in 1 .. Len(pages)}
RequestedKeys == UNION {KeysOf(deleteCalls[b]) : b \in 1 .. Len(deleteCalls)}
PagesWithContents == {p \in 1 .. Len(pages) : pages[p] # <<>>}

\* C16: _delete_s3_objects never requests the deletion of a key that was not
\* listed under the prefix, and when it completes normally it has requested
\* the deletion of every listed key, each key in exactly one delete_objects
\* batch, with one batch per page that has Contents and none for a page
\* without.
C16_DeletesExactlyTheListed ==
    /\ RequestedKeys \subseteq ListedKeys
    /\ \A k \in RequestedKeys : SubSeq(k, 1, Len(s3dir)) = s3dir
    /\ delPc = "done" =>
          /\ RequestedKeys = ListedKeys
          /\ \A k \in ListedKeys :
                 Cardinality({<<b, i>> \in (1 .. Len(deleteCalls)) \X (1 .. Len(AllObjects)) :
                                 i <= Len(deleteCalls[b]) /\ deleteCalls[b][i] = k}) = 1
          /\ Len(deleteCalls) = Cardinality(PagesWithContents)

\* A completed call on a listing of three pages, the second without Contents,
\* while the bucket holds an object outside the directory.
C16_Witness ==
    /\ delPc = "done"
    /\ Len(pages) = 3 /\ pages[1] # <<>> /\ pages[2] = <<>> /\ pages[3] # <<>>
    /\ Len(deleteCalls) = 2
    /\ s3Objects # {}

(***************************************************************************)
(*                         Claims about app.main                           *)
(***************************************************************************)

CallsOf(op) == {i \in 1 .. Len(calls) : calls[i].op = op}

\* C15: for every flag combination, once a run has read an environment
\* variable that is absent, the process has terminated fatally without having
\* made any remote call (query submission, upload, deletion, SMTP session).
C15_MissingVarExitsBeforeRemoteCalls ==
    (envRead \ environ # {}) =>
        /\ mainPc = "exit"
        /\ calls = <<>>
        /\ deleteCalls = <<>>

\* The two result artifacts of the run.
ArtifactDir == <<"RESULT_PATH", "athena", "results">> \o <<Str(YearStr(now))>>
ArtifactNames == {IsoDate(t) : t \in UploadTimes}
IsArtifactPair(parquet, csv) ==
    \E name \in ArtifactNames :
        /\ parquet = ArtifactDir \o <<name \o ".parquet">>
        /\ csv = ArtifactDir \o <<name \o ".csv.gz">>
PutKeys == {calls[i].key : i \in CallsOf("put_object")}
ArtifactsUploaded ==
    /\ url # NoUrl
    /\ Cardinality(PutKeys) = 2
    /\ PutKeys \subseteq s3Objects

\* C17: with --remove_meta main deletes only objects under
\* <RESULT_PATH>/athena/results/meta/, and only after the query result has
\* been collected and both artifacts have been uploaded; the uploaded
\* artifacts are never among the deleted keys; without the flag main deletes
\* nothing.
C17_RemoveMetaDeletesOnlyMeta ==
    /\ \A k \in RequestedKeys :
           /\ Len(k) > 4
           /\ SubSeq(k, 1, 4) = <<"RESULT_PATH", "athena", "results", "meta">>
           /\ k \notin PutKeys
    /\ delPc # "idle" =>
           /\ args.remove_meta
           /\ CallsOf("read_dataset") # {}
           /\ ArtifactsUploaded
    /\ ~args.remove_meta => deleteCalls = <<>>

\* A completed run with --remove_meta: the meta directory has been emptied by
\* at least one batch, and both artifacts are in the bucket.
C17_Witness ==
    /\ mainPc = "done" /\ args.remove_meta
    /\ deleteCalls # <<>>
    /\ UnderPrefix(s3Objects, MetaDir) = {}
    /\ ArtifactsUploaded

\* C18: with --remove_original_logs the raw logs directory is deleted with the
\* same primitive, and only after the result upload has completed; without
\* the flag the raw logs are never deleted.
C18_RemoveOriginalLogs ==
    /\ (mainPc = "done" /\ args.remove_original_logs) =>
           /\ UnderPrefix(s3Objects, LogsDir) = {}
           /\ \E k \in RequestedKeys : SubSeq(k, 1, 1) = LogsDir
    /\ (\E k \in RequestedKeys : SubSeq(k, 1, 1) = LogsDir) =>
           /\ args.remove_original_logs
           /\ ArtifactsUploaded

\* C19: upload_df_to_s3_in_formats writes two distinct objects
\* <base>/<year>/<name>.parquet and <base>/<year>/<name>.csv.gz with the same
\* <name>, and only after both writes returns a pre-signed GET URL for the
\* bucket and key of the .csv.gz object that expires in 604800 seconds.
C19_TwoArtifactsThenUrl ==
    url # NoUrl =>
        \E i, j \in CallsOf("put_object") :
            /\ i < j
            /\ CallsOf("put_object") = {i, j}
            /\ calls[i].key # calls[j].key
            /\ IsArtifactPair(calls[i].key, calls[j].key)
            /\ {calls[i].key, calls[j].key} \subseteq s3Objects
            /\ url.method = "get_object"
            /\ url.key = calls[j].key
            /\ url.expires_in = 604800

\* upload_df_to_s3_in_formats has just returned the URL.
C19_Witness ==
    /\ mainPc = "uploaded"
    /\ url # NoUrl
    /\ Cardinality(PutKeys) = 2

\* Some date ranges, as calculate_date_ranges returns them.
SomeRanges == {MonthlyRange(t) : t \in UploadTimes}

\* C20: every fetch query rendered for submission, by
\* query.generate_athena_fetch_query and by app.athena_fetch_query as main
\* submits it, selects "*" when SELECT_ALL is set and the curated projection
\* otherwise, and restricts the rows to the dates between the computed start
\* and end date.
C20_FetchQueryBoundedByDates ==
    /\ \A r \in SomeRanges, all \in BOOLEAN :
           LET q == GenerateAthenaFetchQuery("db", "logs", r.start, r.end, all)
           IN  /\ q.select = IF all THEN "*" ELSE SelectCurated
               /\ q.where # NoWhere
               /\ q.where.between = <<r.start, r.end>>
    /\ \A i \in CallsOf("start_query_execution") :
           /\ calls[i].sql.select = IF args.select_all THEN "*" ELSE SelectCurated
           /\ calls[i].sql.where # NoWhere

(***************************************************************************)
(*                         Claims about send_email                         *)
(***************************************************************************)

\* C21: every variant of send_email opens at most one SMTP session per
\* call, and when a call on the session raises an authentication failure,
\* a disconnection or another SMTP error, the variant logs the failure and
\* returns: the exception does not reach the caller.
C21_SmtpErrorLoggedNotRaised ==
    /\ emSessions <= 1
    /\ emErr \in SmtpErrors =>
        /\ emPc = "returned"
        /\ \E i \in 1..Len(emLog) : emLog[i].msg # "Email sent successfully!"

(***************************************************************************)
(*                     Claims about the persisted table                    *)
(***************************************************************************)

\* The persisted table: the rows of the parquet objects under the result
\* directory, each named by its object and its position in the object.
ParquetPaths ==
    {p \in DOMAIN upStore : \E t \in UploadDays : p = ParquetFilePath(ResultDir, t)}
PersistedRows == UNION {{<<p, i>> : i \in 1..Len(upStore[p])} : p \in ParquetPaths}
RowAt(r) == upStore[r[1]][r[2]]

\* The rows uploaded so far, and the row of a requestid in the last batch
\* that has one.
UploadedRows == UNION {{<<k, i>> : i \in 1..Len(upLog[k])} : k \in 1..Len(upLog)}
UploadedIds == {upLog[u[1]][u[2]].requestid : u \in UploadedRows}
LastUploaded(id) ==
    LET u == CHOOSE v \in UploadedRows :
                 /\ upLog[v[1]][v[2]].requestid = id
                 /\ \A w \in UploadedRows :
                        upLog[w[1]][w[2]].requestid = id => w[1] <= v[1]
    IN  upLog[u[1]][u[2]]

\* C22: the persisted table holds one row per requestid uploaded, the row
\* of the last batch that has the requestid; so uploading a batch a second
\* time leaves the number of rows of the table as it was.
C22_MergeDedupsByRequestId ==
    /\ \A r1, r2 \in PersistedRows :
          RowAt(r1).requestid = RowAt(r2).requestid => r1 = r2
    /\ \A r \in PersistedRows : RowAt(r) = LastUploaded(RowAt(r).requestid)
    /\ Cardinality(PersistedRows) = Cardinality(UploadedIds)

(***************************************************************************)
(*                  Claims about the rankings of a snapshot                *)
(***************************************************************************)

\* The number of GET rows in scope that analyze_metrics counts for a key.
DownloadsOf(key) ==
    Cardinality({i \in RowsWhere(Counted) : df[i].method = "GET" /\ df[i].key = key})

\* The entries of a ranking come in non-increasing order of their counts.
NonIncreasing(ranking) ==
    \A i, j \in 1 .. Len(ranking) : i <= j => ranking[i][2] >= ranking[j][2]

\* C23: popular_files_by_download lists at most 5 files, with their numbers
\* of GET requests in scope, in non-increasing order, and no file left out
\* has more of them than a file listed; top_user_locations_by_dowload and
\* top_referrers_by_download list at most 5 entries each.
C23_RankingsListAtMostFive ==
    metrics # NoMetrics =>
        LET popular == metrics.popular_files_by_download
            listed == {popular[i][1] : i \in 1 .. Len(popular)}
        IN  /\ Len(popular) <= 5
            /\ \A i \in 1 .. Len(popular) : popular[i][2] = DownloadsOf(popular[i][1])
            /\ NonIncreasing(popular)
            /\ \A i \in RowsWhere(Counted) :
                  df[i].method = "GET" /\ df[i].key \notin listed =>
                      \A k \in listed : DownloadsOf(df[i].key) <= DownloadsOf(k)
            /\ Len(metrics.top_user_locations_by_dowload) <= 5
            /\ Len(metrics.top_referrers_by_download) <= 5

\* The key holds the characters of sub, one after the other.
HasSubstring(key, sub) ==
    \E i \in 1 .. Len(key) - Len(sub) + 1 : SubSeq(key, i, i + Len(sub) - 1) = sub

\* The table without the rows whose key contains "meta.json".
WithoutMetaJsonRows(table) ==
    LET Other(r) == ~HasSubstring(r.key, MetaJsonPattern) IN SelectSeq(table, Other)

\* C28: the rows whose key contains "meta.json" enter no field of the
\* snapshot, which is the one of the table without them; and every other
\* row of the scope is counted: the interactions, downloads, uploads and
\* users of the snapshot are those of the rows in scope whose key does not
\* contain "meta.json".
C28_OnlyMetaJsonRowsLeftOut ==
    metrics # NoMetrics =>
        LET Kept(r) == /\ scope \in {NoneStr, <<>>} \/ r.top_level_key = scope
                       /\ ~HasSubstring(r.key, MetaJsonPattern)
            Interaction(r) == Kept(r) /\ r.method \notin {"PUT", "POST", "DELETE"}
            Got(r) == Kept(r) /\ r.method = "GET"
            Upload(r) == Kept(r) /\ r.method \in {"PUT", "POST"}
        IN  /\ metrics = AnalyzeMetrics(WithoutMetaJsonRows(df), scope)
            /\ metrics.total_overall_interactions_count
                  = Cardinality(RowsWhere(Interaction))
            /\ metrics.total_files_downloads_count = Cardinality(RowsWhere(Got))
            /\ metrics.total_dataset_uploaded_count
                  = Cardinality({df[i].key : i \in RowsWhere(Upload)})
            /\ metrics.unique_users_overall
                  = Cardinality({df[i].remoteip : i \in RowsWhere(Kept)})

(***************************************************************************)
(*             Claims about the request of run_athena_query                *)
(***************************************************************************)

\* C24: once the request is sent, its ResultConfiguration has the
\* OutputLocation and, for each of encryption_configuration,
\* expected_bucket_owner and acl_configuration that was given, the setting
\* given.
C24_ResultConfigurationCarriesSettings ==
    nStart = 1 =>
        /\ "OutputLocation" \in DOMAIN kwargs.ResultConfiguration
        /\ \A a \in passed \cap ConfigurationArguments :
              /\ RequestKey(a) \in DOMAIN kwargs.ResultConfiguration
              /\ kwargs.ResultConfiguration[RequestKey(a)] = ValueOf(a)

(***************************************************************************)
(*                      Claims about the lookup misses                     *)
(***************************************************************************)

\* The record that reader.get answers with names a country by its iso_code.
NamesCountry(lookup) ==
    lookup.kind = "match" /\ "country" \in lookup.keys /\ "iso_code" \in lookup.country_keys

\* C26: whatever the reader answers for the addresses of the table (an
\* exception, no record, a record without a country, a record whose country
\* has no iso_code), get_country_from_ip does not raise: the run produces
\* its report, the country of a row being the iso_code found and "N/A"
\* otherwise; and the snapshots of earlier months that are not there are
\* skipped: the chart is drawn all the same.
C26_LookupMissesRecovered ==
    report # NoReport =>
        /\ report.kind = "report"
        /\ \A i \in 1 .. Len(report.df) :
              report.df[i].country =
                  IF NamesCountry(reader[report.df[i].remoteip])
                  THEN reader[report.df[i].remoteip].iso_code ELSE "N/A"
        /\ report.chart # NoChart
        /\ Len(report.chart.dates) = NumMonths + 1

(***************************************************************************)
(*        Claims about prepare_df applied twice and insert_to_postgres     *)
(***************************************************************************)

\* C27: when a second function that calls prepare_df has been run on the
\* table object, the columns method, top_level_key, referrer and country of
\* every row are what the first call made them.
C27_PrepareDfIdempotent ==
    Len(prepCalls) >= 2 =>
        \A i \in 1 .. Len(rawDf) :
            /\ rawDf[i].method = firstPrepared[i].method
            /\ rawDf[i].top_level_key = firstPrepared[i].top_level_key
            /\ rawDf[i].country = firstPrepared[i].country
            /\ rawDf[i].referrer = firstPrepared[i].referrer

\* C25: a call of insert_to_postgres with a per-day table of one day or
\* more does not raise, and when it has returned the rows of the table are
\* the last rows of the database table and the index on the date column
\* exists.
C25_InsertToPostgresCompletes ==
    /\ daily # <<>> => pgPc # "raised"
    /\ pgPc = "done" =>
          /\ TableName \in DOMAIN pgTables
          /\ Len(pgTables[TableName]) >= Len(daily)
          /\ SubSeq(pgTables[TableName], Len(pgTables[TableName]) - Len(daily) + 1,
                    Len(pgTables[TableName])) = daily
          /\ DateIndex(TableName) \in pgIndexes

====
